---- MODULE Spec2Model ----
(***************************************************************************)
(* Model of the nri-navigator maintenance scripts:                         *)
(*   scripts/description_generator.py  (description update)                *)
(*   scripts/link_checker.py           (link check)                        *)
(*   scripts/logo_tool.py              (logo update)                       *)
(* Each tool is a pipeline: load YAML -> enumerate work items -> submit    *)
(* every item to a thread pool -> drain the completed futures -> merge ->  *)
(* save or report.                                                         *)
(*                                                                         *)
(* Text is a sequence of one-character strings.  A YAML/Python value is a  *)
(* tagged record: null, str, seq, or map (an ordered sequence of key/value *)
(* pairs, as a Python dict keeps insertion order).                         *)
(***************************************************************************)
EXTENDS Integers, Sequences, FiniteSets, TLC

(***************************************************************************)
(* Bounds of the model                                                     *)
(***************************************************************************)
MaxLinks == 2

MaxWorkers == 2

(***************************************************************************)
(* Program constants                                                       *)
(***************************************************************************)
MinDescLen == 10

MaxDescLen == 100

MainTextMin == 50

MainTextMax == 200

DefaultTimeout == 10

ChinaTimeout == 20

(***************************************************************************)
(* Text helpers                                                            *)
(***************************************************************************)
Rep(c, n) == [i \in 1..n |-> c]

IsSpace(c) == c \in {" ", "\n", "\t"}

StartsWith(s, p) == Len(s) >= Len(p) /\ SubSeq(s, 1, Len(p)) = p

EndsWith(s, p) == Len(s) >= Len(p) /\ SubSeq(s, Len(s) - Len(p) + 1, Len(s)) = p

\* str.strip(): drop leading and trailing whitespace
Strip(s) ==
    LET idx == {i \in 1..Len(s) : ~IsSpace(s[i])}
    IN  IF idx = {} THEN <<>>
        ELSE LET lo == CHOOSE i \in idx : \A j \in idx : i <= j
                 hi == CHOOSE i \in idx : \A j \in idx : i >= j
             IN  SubSeq(s, lo, hi)

\* re.sub(r'\s+', ' ', s): every maximal run of whitespace becomes one space
CollapseWS(s) ==
    LET idx  == [i \in 1..Len(s) |-> i]
        keep == SelectSeq(idx, LAMBDA i : ~IsSpace(s[i]) \/ i = 1 \/ ~IsSpace(s[i - 1]))
    IN  [n \in 1..Len(keep) |-> IF IsSpace(s[keep[n]]) THEN " " ELSE s[keep[n]]]

UpperChars == <<"A", "B", "C", "E", "G", "H", "N", "W">>

LowerChars == <<"a", "b", "c", "e", "g", "h", "n", "w">>

\* str.lower() on one character
LowerChar(c) ==
    IF \E i \in 1..Len(UpperChars) : UpperChars[i] = c
    THEN LowerChars[CHOOSE i \in 1..Len(UpperChars) : UpperChars[i] = c]
    ELSE c

Lower(s) == [i \in 1..Len(s) |-> LowerChar(s[i])]

(***************************************************************************)
(* Values: Python objects in memory, YAML nodes in the file                *)
(***************************************************************************)
Null == [tag |-> "null"]

Str(s) == [tag |-> "str", s |-> s]

SeqN(items) == [tag |-> "seq", items |-> items]

MapN(pairs) == [tag |-> "map", pairs |-> pairs]

KV(k, v) == [k |-> k, v |-> v]

IsNull(n) == n.tag = "null"

IsStr(n) == n.tag = "str"

\* Python truthiness of a loaded value: None, '' , [] and {} are falsy
Truthy(n) ==
    CASE n.tag = "null" -> FALSE
      [] n.tag = "str"  -> n.s # <<>>
      [] n.tag = "seq"  -> n.items # <<>>
      [] n.tag = "map"  -> n.pairs # <<>>

\* 'k' in d
HasKey(m, k) == \E i \in 1..Len(m.pairs) : m.pairs[i].k = k

\* d.get(k, default)
Get(m, k, default) ==
    IF HasKey(m, k)
    THEN m.pairs[CHOOSE i \in 1..Len(m.pairs) : m.pairs[i].k = k].v
    ELSE default

\* d[k] = v : an existing key keeps its position, a new key is appended
Put(m, k, v) ==
    IF HasKey(m, k)
    THEN MapN([i \in 1..Len(m.pairs) |->
                 IF m.pairs[i].k = k THEN KV(k, v) ELSE m.pairs[i]])
    ELSE MapN(Append(m.pairs, KV(k, v)))

(***************************************************************************)
(* yaml.safe_load / yaml.dump                                              *)
(* In the file a non-ASCII character is written either raw or as an        *)
(* escape; in memory it is the character itself.                           *)
(***************************************************************************)
NonAsciiChars == {"U6D4B"}

EscapeOf(c) == IF c = "U6D4B" THEN "\\u6D4B" ELSE c

UnescapeOf(c) == IF c = "\\u6D4B" THEN "U6D4B" ELSE c

DecodeText(w) == [i \in 1..Len(w) |-> UnescapeOf(w[i])]

EncodeText(s, allow_unicode) ==
    [i \in 1..Len(s) |-> IF allow_unicode THEN s[i] ELSE EscapeOf(s[i])]

AllKeysSorted ==
    <<"description", "icon", "links", "list", "logo", "note", "taxonomy",
      "term", "title", "url">>

KeyRank(k) == CHOOSE i \in 1..Len(AllKeysSorted) : AllKeysSorted[i] = k

SortPairs(pairs) == SortSeq(pairs, LAMBDA a, b : KeyRank(a.k) < KeyRank(b.k))

RECURSIVE LoadNode(_)
RECURSIVE LoadPairs(_, _)
\* the constructor builds a dict by inserting the pairs in document order
LoadPairs(pairs, acc) ==
    IF pairs = <<>> THEN acc
    ELSE LoadPairs(Tail(pairs), Put(acc, Head(pairs).k, LoadNode(Head(pairs).v)))

LoadNode(n) ==
    CASE n.tag = "null" -> Null
      [] n.tag = "str"  -> Str(DecodeText(n.s))
      [] n.tag = "seq"  -> SeqN([i \in 1..Len(n.items) |-> LoadNode(n.items[i])])
      [] n.tag = "map"  -> LoadPairs(n.pairs, MapN(<<>>))

RECURSIVE DumpNode(_, _, _)
DumpNode(n, sort_keys, allow_unicode) ==
    CASE n.tag = "null" -> Null
      [] n.tag = "str"  -> Str(EncodeText(n.s, allow_unicode))
      [] n.tag = "seq"  ->
           SeqN([i \in 1..Len(n.items) |->
                   DumpNode(n.items[i], sort_keys, allow_unicode)])
      [] n.tag = "map"  ->
           LET ps == IF sort_keys THEN SortPairs(n.pairs) ELSE n.pairs
           IN  MapN([i \in 1..Len(ps) |->
                       KV(ps[i].k, DumpNode(ps[i].v, sort_keys, allow_unicode))])

\* a call of yaml.dump that leaves sort_keys at its default (True)
yaml_dump_sorted(d) == DumpNode(d, TRUE, TRUE)

\* yaml.dump(data, f, default_flow_style=False, allow_unicode=True,
\*           sort_keys=False, indent=2)
yaml_dump(d) == DumpNode(d, FALSE, TRUE)

\* The dataset file: absent, unparsable, or a YAML document
FileAbsent == [kind |-> "absent"]

FileMalformed == [kind |-> "malformed"]

FileDoc(root) == [kind |-> "doc", root |-> root]

\* open(...) + yaml.safe_load(f): the outcome of the load step
safe_load(f) ==
    CASE f.kind = "absent"    -> [ok |-> FALSE, err |-> "FileNotFoundError"]
      [] f.kind = "malformed" -> [ok |-> FALSE, err |-> "YAMLError"]
      [] f.kind = "doc"       -> [ok |-> TRUE, data |-> LoadNode(f.root)]

(***************************************************************************)
(* URLs                                                                    *)
(***************************************************************************)
HTTP == <<"h", "t", "t", "p", ":", "/", "/">>

HTTPS == <<"h", "t", "t", "p", "s", ":", "/", "/">>

WWW == <<"w", "w", "w", ".">>

NotSchemeChars == {":", "/", "?", "#", " ", "\n", "\t", "U6D4B"}

\* the longest prefix of s holding no character of stop
TakeUntil(s, stop) ==
    LET hits == {i \in 1..Len(s) : s[i] \in stop}
    IN  IF hits = {} THEN s
        ELSE SubSeq(s, 1, (CHOOSE i \in hits : \A j \in hits : i <= j) - 1)

\* urllib.parse.urlparse(url).netloc
Netloc(url) ==
    LET pre  == TakeUntil(url, NotSchemeChars)
        hasScheme == pre # <<>> /\ Len(url) > Len(pre) /\ url[Len(pre) + 1] = ":"
        rest == IF hasScheme THEN SubSeq(url, Len(pre) + 2, Len(url)) ELSE url
    IN  IF StartsWith(rest, <<"/", "/">>)
        THEN TakeUntil(SubSeq(rest, 3, Len(rest)), {"/", "?", "#"})
        ELSE <<>>

\* UnifiedLogoTool.extract_domain: url is the loaded value of the entry's url
\* key; a non-string makes url.startswith raise, which the except turns to ""
extract_domain(url) ==
    IF ~IsStr(url) THEN <<>>
    ELSE LET u == IF StartsWith(url.s, HTTP) \/ StartsWith(url.s, HTTPS)
                  THEN url.s ELSE HTTPS \o url.s
             d == Lower(Netloc(u))
         IN  IF StartsWith(d, WWW) THEN SubSeq(d, 5, Len(d)) ELSE d

(***************************************************************************)
(* Description heuristic (description_generator.py)                        *)
(***************************************************************************)
\* the index of the first occurrence of sep in s, or 0
FindSub(s, sep) ==
    LET hits == {i \in 1..(Len(s) - Len(sep) + 1) : SubSeq(s, i, i + Len(sep) - 1) = sep}
    IN  IF hits = {} THEN 0 ELSE CHOOSE i \in hits : \A j \in hits : i <= j

\* str.split(sep)
RECURSIVE Split(_, _)
Split(s, sep) ==
    LET i == FindSub(s, sep)
    IN  IF i = 0 THEN <<s>>
        ELSE <<SubSeq(s, 1, i - 1)>> \o Split(SubSeq(s, i + Len(sep), Len(s)), sep)

\* ' '.join(chunk for chunk in chunks if chunk)
RECURSIVE JoinNonEmpty(_)
JoinNonEmpty(chunks) ==
    IF chunks = <<>> THEN <<>>
    ELSE LET rest == JoinNonEmpty(Tail(chunks))
         IN  IF Head(chunks) = <<>> THEN rest
             ELSE IF rest = <<>> THEN Head(chunks)
             ELSE Head(chunks) \o <<" ">> \o rest

RECURSIVE Flatten(_)
Flatten(ss) == IF ss = <<>> THEN <<>> ELSE Head(ss) \o Flatten(Tail(ss))

\* lines 125-127: strip every line, split it at double spaces, strip the
\* phrases, join the non-empty ones with one space
CleanText(raw) ==
    LET lines  == Split(raw, <<"\n">>)
        chunks == Flatten([i \in 1..Len(lines) |->
                    LET ph == Split(Strip(lines[i]), <<" ", " ">>)
                    IN  [j \in 1..Len(ph) |-> Strip(ph[j])]])
    IN  JoinNonEmpty(chunks)

\* the stripped attribute, or None when the tag or its content is missing/empty
StrippedOrNone(v) == IF Truthy(v) THEN Str(Strip(v.s)) ELSE Null

ErrorInfo == [status |-> "error"]

\* extract_website_info on a page that was fetched: page holds the raw
\* title string, meta contents and body text of the parsed HTML
extract_website_info(page) ==
    LET text == IF IsStr(page.text) THEN CleanText(page.text.s) ELSE <<>>
    IN  [status           |-> "success",
         title            |-> StrippedOrNone(page.title),
         meta_description |-> StrippedOrNone(page.meta_description),
         og_description   |-> StrippedOrNone(page.og_description),
         og_title         |-> StrippedOrNone(page.og_title),
         main_text        |->
            IF text # <<>> /\ Len(text) > MainTextMin
            THEN IF Len(text) > MainTextMax
                 THEN Str(SubSeq(text, 1, MainTextMax) \o <<".", ".", ".">>)
                 ELSE Str(text)
            ELSE Null]

\* str(x) inside an f-string
FormatValue(v) == IF IsStr(v) THEN v.s ELSE <<"N", "o", "n", "e">>

\* line 178: if desc and len(desc.strip()) > 10
Qualifies(desc) == Truthy(desc) /\ Len(Strip(desc.s)) > MinDescLen

\* the clean-up truncating from 100 characters on
CleanDescFrom100(desc) ==
    LET cleaned == Strip(CollapseWS(desc.s))
    IN  IF Len(cleaned) >= MaxDescLen
        THEN Str(SubSeq(cleaned, 1, MaxDescLen) \o <<".", ".", ".">>)
        ELSE Str(cleaned)

\* the clean-up cutting a long text without adding the marker
CleanDescNoMarker(desc) ==
    LET cleaned == Strip(CollapseWS(desc.s))
    IN  IF Len(cleaned) > MaxDescLen
        THEN Str(SubSeq(cleaned, 1, MaxDescLen))
        ELSE Str(cleaned)

\* lines 180-184
CleanDesc(desc) ==
    LET cleaned == Strip(CollapseWS(desc.s))
    IN  IF Len(cleaned) > MaxDescLen
        THEN Str(SubSeq(cleaned, 1, MaxDescLen) \o <<".", ".", ".">>)
        ELSE Str(cleaned)

\* lines 152-188
generate_description(info, title, url) ==
    IF info.status = "error" THEN Null
    ELSE LET srcs == <<info.meta_description, info.og_description, info.og_title,
                       info.title, info.main_text>>
             ok   == {i \in 1..Len(srcs) : Qualifies(srcs[i])}
         IN  IF ok # {}
             THEN CleanDesc(srcs[CHOOSE i \in ok : \A j \in ok : i <= j])
             ELSE Str(FormatValue(title) \o <<" ", "-", " ">> \o Netloc(url.s))

(***************************************************************************)
(* Walking the dataset: categories -> term groups -> links                 *)
(***************************************************************************)
EmptyList == SeqN(<<>>)

EmptyStr == Str(<<>>)

ListOf(cat) == Get(cat, "list", EmptyList).items

LinksOf(grp) == Get(grp, "links", EmptyList).items

\* the links of the dataset in document order, each as <<category, group, link>>
AllLinkPaths(d) ==
    IF d.tag # "seq" THEN <<>> ELSE
    Flatten([c \in 1..Len(d.items) |->
      Flatten([g \in 1..Len(ListOf(d.items[c])) |->
        [l \in 1..Len(LinksOf(ListOf(d.items[c])[g])) |-> <<c, g, l>>]])])

LinkAt(d, p) == LinksOf(ListOf(d.items[p[1]])[p[2]])[p[3]]

\* the assignment reaching every entry of the dataset, not the one referred to
SetFieldOfEveryLink(d, p, key, value) ==
    SeqN([c \in 1..Len(d.items) |->
            Put(d.items[c], "list",
                SeqN([g \in 1..Len(ListOf(d.items[c])) |->
                        Put(ListOf(d.items[c])[g], "links",
                            SeqN([l \in 1..Len(LinksOf(ListOf(d.items[c])[g])) |->
                                    Put(LinksOf(ListOf(d.items[c])[g])[l], key, value)]))]))])

\* link_obj[key] = value, through the work item's back-reference
SetLinkField(d, p, key, value) ==
    LET cat  == d.items[p[1]]
        grp  == ListOf(cat)[p[2]]
        lnk  == LinksOf(grp)[p[3]]
        grp2 == Put(grp, "links", SeqN([LinksOf(grp) EXCEPT ![p[3]] = Put(lnk, key, value)]))
        cat2 == Put(cat, "list", SeqN([ListOf(cat) EXCEPT ![p[2]] = grp2]))
    IN  SeqN([d.items EXCEPT ![p[1]] = cat2])

\* the only-missing filter with a truthiness test in place of "is not None"
SkipsTruthy(only, link) == only /\ Truthy(Get(link, "description", Null))

\* line 208: if only_null and link.get('description') is not None: continue
Skips(only, link) == only /\ ~IsNull(Get(link, "description", Null))

\* an entry passing for one with a url as soon as it has the key
HasUrlKey(link) == HasKey(link, "url")

\* line 210: if link.get('url')
HasUrl(link) == Truthy(Get(link, "url", Null))

\* update_descriptions, lines 204-217: the work items in document order
links_to_update(d, only) ==
    LET ps   == AllLinkPaths(d)
        keep == SelectSeq(ps, LAMBDA p :
                    /\ ~Skips(only, LinkAt(d, p))
                    /\ HasUrl(LinkAt(d, p)))
    IN  [i \in 1..Len(keep) |->
           [category |-> Get(d.items[keep[i][1]], "taxonomy", Null),
            term     |-> Get(ListOf(d.items[keep[i][1]])[keep[i][2]], "term", Null),
            title    |-> Get(LinkAt(d, keep[i]), "title", Null),
            url      |-> Get(LinkAt(d, keep[i]), "url", Null),
            link_obj |-> keep[i]]]

\* LinkChecker.extract_all_links, lines 54-99
Arrow == <<" ", ">", " ">>

RECURSIVE extract_from_category(_, _)
extract_from_category(items, category_name) ==
    Flatten([n \in 1..Len(items) |->
      LET item == items[n] IN
      IF HasKey(item, "taxonomy")
      THEN LET category_title == Get(item, "taxonomy", Null) IN
           IF HasKey(item, "list")
           THEN Flatten([m \in 1..Len(Get(item, "list", EmptyList).items) |->
                  LET sub_item == Get(item, "list", EmptyList).items[m] IN
                  IF HasKey(sub_item, "term")
                  THEN IF HasKey(sub_item, "links")
                       THEN extract_from_category(
                              Get(sub_item, "links", EmptyList).items,
                              FormatValue(category_title) \o Arrow
                                \o FormatValue(Get(sub_item, "term", Null)))
                       ELSE <<>>
                  ELSE IF HasKey(sub_item, "links")
                       THEN extract_from_category(
                              Get(sub_item, "links", EmptyList).items,
                              FormatValue(category_title))
                       ELSE <<>>])
           ELSE <<>>
      ELSE IF HasKey(item, "term")
      THEN IF HasKey(item, "links")
           THEN extract_from_category(
                  Get(item, "links", EmptyList).items,
                  category_name \o Arrow \o FormatValue(Get(item, "term", Null)))
           ELSE <<>>
      ELSE LET url == Strip(Get(item, "url", EmptyStr).s) IN
           IF url # <<>>
           THEN <<[url         |-> url,
                   title       |-> Get(item, "title", Str(<<"U", "n", "k", "n", "o", "w", "n">>)),
                   category    |-> category_name]>>
           ELSE <<>>])

extract_all_links(d) ==
    IF d.tag = "seq" THEN extract_from_category(d.items, <<>>)
    ELSE IF d.tag = "map" /\ HasKey(d, "webstack") /\ Get(d, "webstack", Null).tag = "seq"
    THEN extract_from_category(Get(d, "webstack", Null).items, <<>>)
    ELSE <<>>

\* extract_all_links on a mapping whose 'webstack' value is itself a mapping:
\* the loop of line 59 then runs over its keys, which are strings; a key
\* holding neither 'taxonomy' nor 'term' reaches item.get at line 80, which
\* a str does not have (AttributeError)
extract_all_links_raises(d) ==
    /\ d.tag = "map" /\ HasKey(d, "webstack")
    /\ Get(d, "webstack", Null).tag = "map"
    /\ \E i \in 1..Len(Get(d, "webstack", Null).pairs) :
          Get(d, "webstack", Null).pairs[i].k \notin {"taxonomy", "term"}

\* update_descriptions, lines 205-206, on a top-level mapping: the loop
\* runs over the keys, and category.get raises AttributeError on a str
links_to_update_raises(d) == d.tag = "map" /\ d.pairs # <<>>

\* LinkChecker.normalize_url, lines 101-110: None for an empty url
normalize_url(url) ==
    IF url = <<>> THEN Null
    ELSE LET u == Strip(url)
         IN  IF StartsWith(u, HTTP) \/ StartsWith(u, HTTPS) THEN Str(u)
             ELSE Str(HTTPS \o u)

china_suffixes ==
    << <<".", "c", "n">>, <<".", "c", "o", "m", ".", "c", "n">>,
       <<".", "n", "e", "t", ".", "c", "n">>, <<".", "o", "r", "g", ".", "c", "n">>,
       <<".", "g", "o", "v", ".", "c", "n">>, <<".", "e", "d", "u", ".", "c", "n">> >>

\* UnifiedLogoTool.is_china_domain(domain), lines 68-71
is_china_domain(domain) ==
    \E i \in 1..Len(china_suffixes) : EndsWith(Lower(domain), china_suffixes[i])

\* LinkChecker.is_china_domain(url), lines 112-122
checker_is_china_domain(url) ==
    \E i \in 1..Len(china_suffixes) : EndsWith(Lower(Netloc(url)), china_suffixes[i])

(***************************************************************************)
(* Link-health classifier (link_checker.py, check_single_link)             *)
(* A probe ends with a response (its status code) or with an exception,    *)
(* given by the classes it is an instance of and its message.              *)
(***************************************************************************)
Response(code) == [kind |-> "response", code |-> code]

Raised(classes, msg) == [kind |-> "exception", classes |-> classes, msg |-> msg]

ReadTimeout == Raised({"Timeout"}, <<"Read timed out.">>)

ConnectTimeout == Raised({"Timeout", "ConnectionError"}, <<"Connection timed out.">>)

SSLError == Raised({"SSLError", "ConnectionError"}, <<"certificate verify failed">>)

DnsKnown ==
    Raised({"ConnectionError"}, <<"Max retries exceeded", "Name or service not known">>)

DnsTemporary ==
    Raised({"ConnectionError"},
           <<"Max retries exceeded", "Temporary failure in name resolution">>)

Refused == Raised({"ConnectionError"}, <<"Connection refused">>)

InvalidURL == Raised({}, <<"Invalid URL">>)

ProbeOutcomes ==
    <<Response(200), Response(301), Response(204), Response(404), Refused,
      DnsTemporary, DnsKnown, InvalidURL, SSLError, ConnectTimeout, ReadTimeout>>

\* 'phrase' in error_msg
Contains(msg, phrase) == FindSub(msg, <<phrase>>) # 0

\* the Timeout handler counting the link under 'failed'
on_timeout_counts_failed == [status |-> "timeout", counter |-> "failed", listed |-> TRUE]

\* except requests.exceptions.Timeout, lines 179-192
on_timeout == [status |-> "timeout", counter |-> "timeout", listed |-> TRUE]

\* The branch check_single_link takes on a probe outcome: the status it
\* gives the result, the counter it increments and whether it appends the
\* result to failed_links (lines 165-244; the except clauses in their order)
Classify(o) ==
    IF o.kind = "response"
    THEN IF o.code = 200
         THEN [status |-> "success", counter |-> "success", listed |-> FALSE]
         ELSE IF 300 <= o.code /\ o.code < 400
         THEN [status |-> "redirect", counter |-> "redirect", listed |-> FALSE]
         ELSE [status |-> "http_error", counter |-> "failed", listed |-> TRUE]
    ELSE IF "Timeout" \in o.classes
    THEN on_timeout
    ELSE IF "SSLError" \in o.classes
    THEN [status |-> "ssl_error", counter |-> "ssl_error", listed |-> TRUE]
    ELSE IF "ConnectionError" \in o.classes
    THEN IF Contains(o.msg, "Name or service not known")
            \/ Contains(o.msg, "getaddrinfo failed")
         THEN [status |-> "dns_error", counter |-> "dns_error", listed |-> TRUE]
         ELSE [status |-> "connection_error", counter |-> "failed", listed |-> TRUE]
    ELSE [status |-> "unknown_error", counter |-> "unknown_error", listed |-> TRUE]

\* lines 139-141: the timeout the probe is given
probe_timeout(url) == IF checker_is_china_domain(url) THEN ChinaTimeout ELSE DefaultTimeout

\* the result dict check_single_link builds for a link and a probe outcome
make_result(link, o) ==
    [url           |-> link.url,
     title         |-> link.title,
     category      |-> link.category,
     status        |-> Classify(o).status,
     status_code   |-> IF o.kind = "response" THEN o.code ELSE 0,
     response_time |-> IF Classify(o).status = "timeout"
                       THEN probe_timeout(normalize_url(link.url).s) ELSE 0]

\* lines 126-137: the result for a link whose url normalises to None
invalid_url_result(link) ==
    [url |-> link.url, title |-> link.title, category |-> link.category,
     status |-> "invalid_url", status_code |-> 0, response_time |-> 0]

\* lines 28-37
InitStats ==
    [total |-> 0, success |-> 0, failed |-> 0, timeout |-> 0, redirect |-> 0,
     ssl_error |-> 0, dns_error |-> 0, unknown_error |-> 0]

\* main, line 508, reading stats['failed'] in place of failed_links
exit_code_from_failed_counter(fl, st) == IF st.failed = 0 THEN 0 ELSE 1

\* main, line 508: sys.exit(0 if not checker.failed_links else 1)
checker_exit_code(fl, st) == IF fl = <<>> THEN 0 ELSE 1

(***************************************************************************)
(* Favicon resolver and logo update (logo_tool.py)                         *)
(* A literal of the program is kept as one text atom.                      *)
(***************************************************************************)
Api(pre, post) == [pre |-> pre, post |-> post]

\* lines 27-35
favicon_apis ==
    << Api(<<"https://api.iowen.cn/favicon/">>, <<".png">>),
       Api(<<"https://t2.gstatic.com/faviconV2?client=SOCIAL&type=FAVICON&fallback_opts=TYPE,SIZE,URL&url=https://">>, <<"&size=128">>),
       Api(<<"https://www.google.com/s2/favicons?sz=128&domain=">>, <<>>),
       Api(<<"https://favicons.githubusercontent.com/">>, <<>>),
       Api(<<"https://icons.duckduckgo.com/ip3/">>, <<".ico">>),
       Api(<<"https://favicon.im/">>, <<"?larger=true">>),
       Api(<<"https://api.faviconkit.com/">>, <<"/128">>) >>

\* lines 38-46
china_favicon_apis ==
    << Api(<<"https://statics.dnspod.cn/proxy_favicon/_/favicon?domain=">>, <<>>),
       Api(<<"https://api.iowen.cn/favicon/">>, <<".png">>),
       Api(<<"https://favicon.link/f/">>, <<>>),
       Api(<<"https://icon.horse/icon/">>, <<"?size=large">>),
       Api(<<"https://t2.gstatic.com/faviconV2?client=SOCIAL&type=FAVICON&fallback_opts=TYPE,SIZE,URL&url=https://">>, <<"&size=128">>),
       Api(<<"https://www.google.com/s2/favicons?sz=128&domain=">>, <<>>),
       Api(<<"https://api.faviconkit.com/">>, <<"/128">>) >>

\* api_template.format(domain=domain)
FormatApi(t, domain) == t.pre \o domain \o t.post

\* a loop over the candidates that does not stop at a probe that passes
probe_every(i, n, passes) == [j \in 1..(n - i + 1) |-> i + j - 1]

\* the for loop of lines 128-143 from candidate i of n on: the positions
\* probed, in order; the loop returns at the first probe that passes
RECURSIVE probe_loop(_, _, _)
probe_loop(i, n, passes) ==
    IF i > n THEN <<>>
    ELSE IF i \in passes THEN <<i>>
    ELSE <<i>> \o probe_loop(i + 1, n, passes)

\* get_favicon_for_domain, lines 110-154.  passes: the positions of the
\* selected list whose test_favicon_url succeeds; direct: what
\* get_favicon_from_website finds (None or a URL)
get_favicon_for_domain(domain, passes, direct) ==
    IF domain = <<>> THEN Null
    ELSE LET apis   == IF is_china_domain(domain) THEN china_favicon_apis ELSE favicon_apis
             probed == probe_loop(1, Len(apis), passes)
             last   == probed[Len(probed)]
         IN  IF last \in passes
             THEN Str(FormatApi(apis[last], domain))
             ELSE IF is_china_domain(domain) /\ Truthy(direct) THEN direct
             ELSE Null

\* the probes get_favicon_for_domain makes, as positions of the list it selected
favicon_probes(domain, passes) ==
    IF domain = <<>> THEN <<>>
    ELSE probe_loop(1, Len(IF is_china_domain(domain) THEN china_favicon_apis
                           ELSE favicon_apis), passes)

\* an optional number: None is the empty sequence
NoSize == <<>>

Size(n) == <<n>>

\* what the two requests for one candidate give: test_favicon_url rejects
\* it, or it accepts it and the HEAD request of check_logo_quality fails, or
\* answers 200 with or without a content-length header
Rejected == [kind |-> "fail", content_length |-> NoSize]

HeadFails == [kind |-> "invalid", content_length |-> NoSize]

HeadOk(content_length) == [kind |-> "head", content_length |-> content_length]

\* check_logo_quality, lines 156-185
check_logo_quality(head) ==
    IF head.kind = "invalid" THEN [valid |-> FALSE, file_size |-> NoSize]
    ELSE [valid |-> TRUE, file_size |-> head.content_length]

\* lines 221-229: the score of the file size
size_score(file_size) ==
    IF file_size = NoSize \/ file_size[1] = 0 THEN 0
    ELSE IF 1000 <= file_size[1] /\ file_size[1] <= 20000 THEN 50
    ELSE IF 500 <= file_size[1] /\ file_size[1] <= 50000 THEN 30
    ELSE 10

\* lines 235-238: "faviconkit" or "icon.horse" in the URL gives 20,
\* "size=128" or "larger=true" gives 15
api_bonus(t) ==
    (IF t.pre \in {<<"https://api.faviconkit.com/">>, <<"https://icon.horse/icon/">>}
     THEN 20 ELSE 0)
    + (IF t.post \in {<<"&size=128">>, <<"?larger=true">>} THEN 15 ELSE 0)

\* lines 219-238: the score of candidate i of the list
quality_score(apis, i, file_size) ==
    size_score(file_size) + (Len(apis) - i) * 5 + api_bonus(apis[i])

\* a comparison that lets a later candidate of equal score win
at_least_as_good(score, best_quality_score) == score >= best_quality_score

\* line 244: if score > best_quality_score
better(score, best_quality_score) == score > best_quality_score

\* the for loop of lines 208-257 from candidate i on
RECURSIVE best_loop(_, _, _, _, _)
best_loop(apis, probes, i, best_favicon, best_quality_score) ==
    IF i > Len(apis) THEN best_favicon
    ELSE IF probes[i].kind = "fail" \/ ~check_logo_quality(probes[i]).valid
         THEN best_loop(apis, probes, i + 1, best_favicon, best_quality_score)
         ELSE LET score == quality_score(apis, i, check_logo_quality(probes[i]).file_size)
              IN  IF better(score, best_quality_score)
                  THEN best_loop(apis, probes, i + 1, i, score)
                  ELSE best_loop(apis, probes, i + 1, best_favicon, best_quality_score)

\* get_best_quality_favicon, lines 187-266; position 0 stands for None
get_best_quality_favicon(domain, probes, direct) ==
    IF domain = <<>> THEN Null
    ELSE LET apis == IF is_china_domain(domain) THEN china_favicon_apis ELSE favicon_apis
             best_favicon == best_loop(apis, probes, 1, 0, 0)
         IN  IF best_favicon # 0
             THEN Str(FormatApi(apis[best_favicon], domain))
             ELSE get_favicon_for_domain(domain,
                      {i \in 1..Len(apis) : probes[i].kind # "fail"}, direct)

\* lines 427 and 507: if not logo or logo.strip() == ''
missing_logo(link) ==
    LET logo == Get(link, "logo", EmptyStr)
    IN  ~Truthy(logo) \/ Strip(logo.s) = <<>>

\* scan_missing_logos, lines 409-432
scan_missing_logos(d) ==
    LET ps   == AllLinkPaths(d)
        keep == SelectSeq(ps, LAMBDA p :
                    /\ missing_logo(LinkAt(d, p))
                    /\ extract_domain(Get(LinkAt(d, p), "url", EmptyStr)) # <<>>)
    IN  [i \in 1..Len(keep) |->
           [title  |-> Get(LinkAt(d, keep[i]), "title", Str(<<"U", "n", "k", "n", "o", "w", "n">>)),
            url    |-> Get(LinkAt(d, keep[i]), "url", EmptyStr),
            domain |-> extract_domain(Get(LinkAt(d, keep[i]), "url", EmptyStr))]]

\* domain in domain_to_favicon and domain_to_favicon[domain]
FoundFor(dtf, domain) == domain \in DOMAIN dtf /\ Truthy(dtf[domain])

\* update_missing_logos_batch, lines 495-514: write the favicons found
\* into the entries that miss a logo
RECURSIVE merge_logos(_, _, _, _)
merge_logos(paths, d, dtf, cnt) ==
    IF paths = <<>> THEN [data |-> d, counts |-> cnt]
    ELSE LET p      == Head(paths)
             link   == LinkAt(d, p)
             domain == extract_domain(Get(link, "url", EmptyStr))
         IN  IF missing_logo(link)
             THEN IF FoundFor(dtf, domain)
                  THEN merge_logos(Tail(paths),
                          SetLinkField(d, p, "logo", dtf[domain]), dtf,
                          [cnt EXCEPT !.updated = @ + 1])
                  ELSE merge_logos(Tail(paths), d, dtf,
                          [cnt EXCEPT !.failed = @ + 1])
             ELSE merge_logos(Tail(paths), d, dtf, cnt)

(***************************************************************************)
(* Inputs: dataset files, fetched pages, favicon probe answers             *)
(***************************************************************************)
GhCom == <<"g", "h", ".", "c", "o", "m">>

\* the entry of the end-to-end scenario: description null, no logo key
EntryGitHub ==
    MapN(<< KV("title", Str(<<"G", "H">>)),
            KV("url", Str(HTTPS \o GhCom)),
            KV("description", Null) >>)

\* an entry that is complete, with an extra key holding non-ASCII text
EntryDone ==
    MapN(<< KV("title", Str(<<"A">>)),
            KV("url", Str(HTTPS \o WWW \o <<"a", ".", "c", "n", "/", "x">>)),
            KV("logo", Str(<<"https://a.cn/logo.png">>)),
            KV("description", Str(Rep("d", 12))),
            KV("note", Str(<<"U6D4B", "a">>)) >>)

\* empty description and logo, url first, upper-case host with www., the
\* same domain as EntryGitHub, the title written with an escape
EntryEmpty ==
    MapN(<< KV("url", Str(HTTP \o <<"W", "W", "W", ".", "G", "H", ".", "c", "o", "m">>)),
            KV("title", Str(<<"\\u6D4B">>)),
            KV("logo", EmptyStr),
            KV("description", EmptyStr) >>)

\* an entry without url
EntryNoUrl ==
    MapN(<< KV("title", Str(<<"N">>)),
            KV("url", EmptyStr),
            KV("logo", Null),
            KV("description", Null) >>)

\* an entry without description key, with a logo
EntryBare ==
    MapN(<< KV("title", Str(<<"B">>)),
            KV("url", Str(HTTPS \o <<"b", ".", "o", "r", "g">>)),
            KV("logo", Str(<<"https://b.org/favicon.ico">>)) >>)

\* an entry with a logo whose title is left empty in the file (title: null)
EntryUntitled ==
    MapN(<< KV("title", Null),
            KV("url", Str(HTTPS \o <<"b", ".", "o", "r", "g">>)),
            KV("logo", Str(<<"https://b.org/favicon.ico">>)) >>)

EntryCycle == <<EntryGitHub, EntryEmpty, EntryDone, EntryBare, EntryNoUrl>>

\* the document the description tool's test writes: a mapping with a
\* 'webstack' key holding category names mapped to lists of entries
FixtureDoc ==
    MapN(<< KV("webstack",
               MapN(<< KV("U6D4B", SeqN(<< Put(EntryGitHub, "logo", EmptyStr),
                                           EntryEmpty >>)) >>)) >>)

Group(term, links) == MapN(<< KV("term", Str(term)), KV("links", SeqN(links)) >>)

\* the document holding the entries es: the first entry in the first
\* category, the others in the second, two to a term group
Layout(es) ==
    LET n    == Len(es)
        cat1 == MapN(<< KV("taxonomy", Str(<<"C", "1">>)),
                        KV("icon", Str(<<"U6D4B">>)),
                        KV("list", SeqN(<<Group(<<"T", "1">>, SubSeq(es, 1, 1))>>)) >>)
        cat2 == MapN(<< KV("taxonomy", Str(<<"C", "2">>)),
                        KV("list", SeqN([g \in 1..(n \div 2) |->
                              Group(<<"T", "2">>,
                                    SubSeq(es, 2 * g, IF 2 * g + 1 <= n THEN 2 * g + 1 ELSE n))])) >>)
    IN  SeqN(IF n = 0 THEN <<>> ELSE IF n = 1 THEN <<cat1>> ELSE <<cat1, cat2>>)

\* the datasets tried: up to MaxLinks consecutive entries of the cycle,
\* from every starting point
EntrySeqs ==
    {[i \in 1..n |-> EntryCycle[((r + i - 2) % Len(EntryCycle)) + 1]] :
        n \in 0..MaxLinks, r \in 1..Len(EntryCycle)}

Files ==
    {FileAbsent, FileMalformed, FileDoc(FixtureDoc)}
       \cup {FileDoc(Layout(es)) : es \in EntrySeqs}

\* dataset files with an untitled entry, given to the logo verification
UntitledFiles ==
    {FileDoc(Layout(<<EntryUntitled>>)), FileDoc(Layout(<<EntryBare, EntryUntitled>>))}

NoTag == Null

Page(title, meta) ==
    [title |-> title, meta_description |-> meta, og_description |-> NoTag,
     og_title |-> NoTag, text |-> NoTag]

\* the page of the end-to-end scenario: a meta description of 49 characters
PageGitHub == Page(NoTag, Str(Rep("m", 49)))

\* a meta description of exactly 10 characters, a title of 12
PageShort == Page(Str(Rep("t", 12)), Str(Rep("s", 10)))

\* a meta description of exactly 100 characters
PageMax == Page(NoTag, Str(Rep("x", 100)))

\* a meta description of 101 characters
PageLong == Page(NoTag, Str(Rep("y", 101)))

\* a padded meta description holding a run of two spaces
PageSpaces == Page(NoTag, Str(<<" ">> \o Rep("a", 6) \o <<" ", " ">> \o Rep("b", 6)))

\* What the network does to the fetches of a run.  Work item i meets the
\* outcome at position k + (i - 1) * s of the tool's cycle of outcomes: with
\* s = 0 every item meets the same outcome, with s = 1 consecutive ones.
OutcomeAt(cycle, net, i) == cycle[((net.k - 1 + (i - 1) * net.s) % Len(cycle)) + 1]

Nets(cycle) == {[k |-> k, s |-> s] : k \in 1..Len(cycle), s \in {0, 1}}

\* a fetch of the description tool: the request failed (status 'error'),
\* a page was fetched and parsed, or the call raised
DescOutcomes ==
    <<[kind |-> "info", info |-> extract_website_info(PageGitHub)],
      [kind |-> "info", info |-> ErrorInfo],
      [kind |-> "info", info |-> extract_website_info(PageShort)],
      [kind |-> "raise"],
      [kind |-> "info", info |-> extract_website_info(PageMax)],
      [kind |-> "info", info |-> extract_website_info(PageLong)],
      [kind |-> "info", info |-> extract_website_info(PageSpaces)]>>

\* a favicon lookup: the positions of the candidate list that answer with
\* an image and whether the site itself serves a favicon, or the call raised
FaviconOutcomes ==
    <<[kind |-> "probes", passes |-> {1}, direct |-> FALSE],
      [kind |-> "probes", passes |-> {}, direct |-> FALSE],
      [kind |-> "raise"],
      [kind |-> "probes", passes |-> {3, 5}, direct |-> FALSE],
      [kind |-> "probes", passes |-> {}, direct |-> TRUE]>>

\* what test_favicon_url answers for a logo that is verified; it returns
\* False on any exception (logo_tool.py 73-108)
VerifyOutcomes == <<[kind |-> "tested", is_valid |-> FALSE],
                    [kind |-> "tested", is_valid |-> TRUE]>>

OutcomesOf(t) ==
    CASE t = "desc"   -> DescOutcomes
      [] t = "check"  -> ProbeOutcomes
      [] t = "update" -> FaviconOutcomes
      [] t = "verify" -> VerifyOutcomes

(***************************************************************************)
(* State                                                                   *)
(***************************************************************************)
VARIABLES
    tool,              \* "desc", "check", "update", "verify" or "report": the command that runs
    only_null,         \* description tool: not --all
    dry_run,           \* logo update: --dry-run
    max_workers,       \* size of the thread pool
    net,               \* what the network does to the fetches of the run
    file0,             \* the dataset file when the run starts
    file,              \* the dataset file
    data,              \* the dataset in memory
    pc,                \* position of the main thread
    exitCode,          \* the process's exit code, -1 while it runs
    crashed,           \* an exception escaped to the caller of the batch
    answer,            \* what the user typed at the confirmation prompt
    work,              \* the work items, in submission order
    fut,               \* one future per work item
    counts,            \* updated / failed counters of a writing tool
    ret,               \* the statistics the batch function returned
    domain_to_favicon, \* logo update: domain -> favicon URL or None
    stats,             \* link checker: self.stats
    failed_links,      \* link checker: self.failed_links
    results,           \* link checker: the results list
    writes,            \* how many times the dataset file was opened for writing
    save_error,        \* the save step printed its failure message
    loads,             \* how many times the dataset file was loaded
    call,              \* a function called on its own: its name and arguments
    result             \* what the called function returned

vars ==
    <<tool, only_null, dry_run, max_workers, net, file0, file, data, pc, exitCode,
      crashed, answer, work, fut, counts, ret, domain_to_favicon, stats,
      failed_links, results, writes, save_error, loads, call, result>>

config == <<tool, only_null, dry_run, max_workers, net, file0, call, result>>

NoCall == [fn |-> "none"]

NoResult == [kind |-> "none"]

checker_state == <<stats, failed_links, results>>

NoOut == [kind |-> "none"]

NoRet == [kind |-> "none"]

ZeroCounts == [updated |-> 0, failed |-> 0, total |-> 0]

Queued(n) == [i \in 1..n |-> [st |-> "queued", out |-> NoOut]]

\* a pool that never sees one of its workers busy
NoneInFlight == {}

InFlight == {i \in 1..Len(fut) : fut[i].st \in {"running", "recording"}}

\* a drain loop that never sees its last future
NeverDrained == FALSE

\* a save that waits for the submissions only, not for the results
NoneQueued == \A i \in 1..Len(fut) : fut[i].st # "queued"

AllDrained == \A i \in 1..Len(fut) : fut[i].st = "drained"

Init ==
    /\ tool \in {"desc", "check", "update", "verify", "report"}
    /\ only_null \in (IF tool = "desc" THEN BOOLEAN ELSE {TRUE})
    /\ dry_run \in (IF tool = "update" THEN BOOLEAN ELSE {FALSE})
    /\ max_workers \in {1, MaxWorkers}
    /\ net \in (IF tool = "report" THEN {[k |-> 1, s |-> 0]} ELSE Nets(OutcomesOf(tool)))
    /\ file0 \in Files \cup (IF tool = "verify" THEN UntitledFiles ELSE {})
    /\ file = file0
    /\ data = Null
    /\ pc = "start"
    /\ exitCode = -1
    /\ crashed = FALSE
    /\ answer = "none"
    /\ work = <<>>
    /\ fut = <<>>
    /\ counts = ZeroCounts
    /\ ret = NoRet
    /\ domain_to_favicon = <<>>
    /\ stats = InitStats
    /\ failed_links = <<>>
    /\ results = <<>>
    /\ writes = 0
    /\ save_error = FALSE
    /\ loads = 0
    /\ call = NoCall
    /\ result = NoResult

(***************************************************************************)
(* Load                                                                    *)
(***************************************************************************)
\* a load step that turns a failed load into an empty dataset
load_outcome_lenient(f) ==
    IF safe_load(f).ok THEN [exit |-> FALSE, data |-> safe_load(f).data]
    ELSE [exit |-> FALSE, data |-> SeqN(<<>>)]

\* load_webstack_data of the three tools: sys.exit(1) when the file cannot
\* be opened or parsed, the loaded dataset otherwise
load_outcome(f) ==
    IF safe_load(f).ok THEN [exit |-> FALSE, data |-> safe_load(f).data]
    ELSE [exit |-> TRUE, data |-> Null]

load_webstack_data ==
    /\ pc = "start"
    /\ loads' = loads + 1
    /\ IF load_outcome(file).exit
       THEN /\ pc' = "exited"
            /\ exitCode' = 1
            /\ data' = data
       ELSE /\ pc' = "loaded"
            /\ exitCode' = exitCode
            /\ data' = load_outcome(file).data
    /\ UNCHANGED <<config, file, crashed, answer, work, fut, counts, ret,
                   domain_to_favicon, checker_state, writes, save_error>>

(***************************************************************************)
(* Enumerate and submit                                                    *)
(***************************************************************************)
\* update_descriptions, lines 203-230
DescSubmit ==
    /\ pc = "loaded" /\ tool = "desc"
    /\ IF links_to_update_raises(data)
       THEN /\ pc' = "exited" /\ exitCode' = 1 /\ crashed' = TRUE
            /\ UNCHANGED <<work, fut, counts>>
       ELSE /\ work' = links_to_update(data, only_null)
            /\ fut' = Queued(Len(work'))
            /\ counts' = [ZeroCounts EXCEPT !.total = Len(work')]
            /\ pc' = "drain"
            /\ UNCHANGED <<exitCode, crashed>>
    /\ UNCHANGED <<config, loads, file, data, answer, ret,
                   domain_to_favicon, checker_state, writes, save_error>>

\* link_checker.main, lines 465-472, and check_links_batch, lines 252-260
CheckSubmit ==
    /\ pc = "loaded" /\ tool = "check"
    /\ IF extract_all_links_raises(data)
       THEN /\ pc' = "exited" /\ exitCode' = 1 /\ crashed' = TRUE
            /\ UNCHANGED <<work, fut, stats>>
       ELSE LET links == extract_all_links(data) IN
            /\ crashed' = crashed
            /\ IF links = <<>>
               THEN /\ pc' = "exited"
                    /\ exitCode' = 1
                    /\ UNCHANGED <<work, fut, stats>>
               ELSE /\ work' = links
                    /\ fut' = Queued(Len(links))
                    /\ stats' = [stats EXCEPT !.total = Len(links)]
                    /\ pc' = "drain"
                    /\ exitCode' = exitCode
    /\ UNCHANGED <<config, loads, file, data, answer, counts, ret,
                   domain_to_favicon, failed_links, results, writes, save_error>>

\* update_missing_logos_batch, lines 436-478: scan, preview and prompt,
\* second load, submit
UpdateSubmit ==
    /\ pc = "loaded" /\ tool = "update"
    /\ LET missing == scan_missing_logos(data) IN
       /\ counts' = [ZeroCounts EXCEPT !.total = Len(missing)]
       /\ IF missing = <<>>
          THEN /\ pc' = "exited" /\ exitCode' = 0
               /\ ret' = counts'
               /\ UNCHANGED <<answer, work, fut, data, loads>>
          ELSE \E typed \in (IF dry_run THEN {"y", "n"} ELSE {"none"}) :
               /\ answer' = typed
               /\ IF dry_run /\ typed # "y"
                  THEN /\ pc' = "exited" /\ exitCode' = 0
                       /\ ret' = counts'
                       /\ UNCHANGED <<work, fut, data, loads>>
                  ELSE /\ data' = load_outcome(file).data
                       /\ loads' = loads + 1
                       /\ work' = missing
                       /\ fut' = Queued(Len(missing))
                       /\ pc' = "drain"
                       /\ UNCHANGED <<exitCode, ret>>
    /\ UNCHANGED <<config, file, crashed, domain_to_favicon, checker_state, writes, save_error>>

(***************************************************************************)
(* Worker threads                                                          *)
(***************************************************************************)
\* a pool thread takes the oldest queued task when fewer than max_workers
\* are running (ThreadPoolExecutor's work queue is first-in first-out)
\* verify_existing_logos, lines 535-552: the entries with a logo
logos_to_check(d) ==
    LET ps   == AllLinkPaths(d)
        keep == SelectSeq(ps, LAMBDA p :
                    LET logo == Get(LinkAt(d, p), "logo", EmptyStr)
                    IN  Truthy(logo) /\ Strip(logo.s) # <<>>)
    IN  [i \in 1..Len(keep) |->
           [title    |-> Get(LinkAt(d, keep[i]), "title", Str(<<"Unknown">>)),
            url      |-> Get(LinkAt(d, keep[i]), "url", EmptyStr),
            logo     |-> Get(LinkAt(d, keep[i]), "logo", EmptyStr),
            link_ref |-> keep[i]]]

\* line 536: stats = {"total": 0, "valid": 0, "invalid": 0, "checked": 0}
VerifyStats == [total |-> 0, valid |-> 0, invalid |-> 0, checked |-> 0]

\* verify_existing_logos, lines 530-573: collect, and submit to the pool
VerifySubmit ==
    /\ pc = "loaded" /\ tool = "verify"
    /\ work' = logos_to_check(data)
    /\ counts' = [VerifyStats EXCEPT !.total = Len(work')]
    /\ IF work' = <<>>
       THEN /\ pc' = "exited" /\ exitCode' = 0 /\ ret' = counts'
            /\ fut' = fut
       ELSE /\ fut' = Queued(Len(work'))
            /\ pc' = "drain"
            /\ UNCHANGED <<exitCode, ret>>
    /\ UNCHANGED <<config, loads, file, data, crashed, answer, domain_to_favicon,
                   checker_state, writes, save_error>>

StartFetch(i) ==
    /\ pc = "drain"
    /\ fut[i].st = "queued"
    /\ \A j \in 1..(i - 1) : fut[j].st # "queued"
    /\ Cardinality(InFlight) < max_workers
    /\ fut' = [fut EXCEPT ![i].st = "running"]
    /\ UNCHANGED <<config, loads, file, data, pc, exitCode, crashed, answer, work, counts,
                   ret, domain_to_favicon, checker_state, writes, save_error>>

\* extract_website_info(link['url']) ends in a worker: the request failed
\* (status 'error'), a page was parsed, or the call raised
DescFetch(i) ==
    /\ pc = "drain" /\ tool = "desc"
    /\ fut[i].st = "running"
    /\ fut' = [fut EXCEPT ![i] = [st |-> "done", out |-> OutcomeAt(DescOutcomes, net, i)]]
    /\ UNCHANGED <<config, loads, file, data, pc, exitCode, crashed, answer, work, counts,
                   ret, domain_to_favicon, checker_state, writes, save_error>>

\* check_single_link up to the read of the counter it is about to increment
\* (self.stats[k] += 1 is a read followed by a write)
CheckProbe(i) ==
    /\ pc = "drain" /\ tool = "check"
    /\ fut[i].st = "running"
    /\ IF IsNull(normalize_url(work[i].url))
       THEN fut' = [fut EXCEPT ![i] =
                      [st |-> "done",
                       out |-> [kind |-> "result", res |-> invalid_url_result(work[i])]]]
       ELSE LET o == OutcomeAt(ProbeOutcomes, net, i) IN
            fut' = [fut EXCEPT ![i] =
                      [st |-> "recording",
                       out |-> [kind |-> "probe", outcome |-> o,
                                tmp |-> stats[Classify(o).counter]]]]
    /\ UNCHANGED <<config, loads, file, data, pc, exitCode, crashed, answer, work, counts,
                   ret, domain_to_favicon, checker_state, writes, save_error>>

\* the rest of the branch: the counter is written, the result is appended
\* to failed_links when the branch does so, and the result is returned
CheckRecord(i) ==
    /\ pc = "drain" /\ tool = "check"
    /\ fut[i].st = "recording"
    /\ LET o   == fut[i].out.outcome
           c   == Classify(o)
           res == make_result(work[i], o)
       IN  /\ stats' = [stats EXCEPT ![c.counter] = fut[i].out.tmp + 1]
           /\ failed_links' = IF c.listed THEN Append(failed_links, res) ELSE failed_links
           /\ fut' = [fut EXCEPT ![i] =
                        [st |-> "done",
                         out |-> [kind |-> "result", res |-> res]]]
    /\ UNCHANGED <<config, loads, file, data, pc, exitCode, crashed, answer, work, counts,
                   ret, domain_to_favicon, results, writes, save_error>>

\* fetch_favicon_for_domain(domain) ends in a worker
LogoFetch(i) ==
    /\ pc = "drain" /\ tool = "update"
    /\ fut[i].st = "running"
    /\ LET o == OutcomeAt(FaviconOutcomes, net, i) IN
       fut' = [fut EXCEPT ![i] =
                 [st  |-> "done",
                  out |-> IF o.kind = "raise" THEN o
                          ELSE [kind |-> "favicon",
                                url  |-> get_favicon_for_domain(work[i].domain, o.passes,
                                           IF o.direct
                                           THEN Str(HTTPS \o work[i].domain \o <<"/favicon.ico">>)
                                           ELSE Null)]]]
    /\ UNCHANGED <<config, loads, file, data, pc, exitCode, crashed, answer, work, counts,
                   ret, domain_to_favicon, checker_state, writes, save_error>>

(***************************************************************************)
(* The main thread drains the completed futures                            *)
(***************************************************************************)
\* the loop body with the failure marker written into the entry
desc_drain_writes_marker(d, cnt, item, out) ==
    IF out.kind = "raise" \/ out.info.status = "error"
    THEN [data    |-> SetLinkField(d, item.link_obj, "description",
                                   Str(<<"e", "r", "r", "o", "r">>)),
          counts  |-> [cnt EXCEPT !.failed = @ + 1],
          crashed |-> FALSE]
    ELSE [data    |-> SetLinkField(d, item.link_obj, "description",
                         generate_description(out.info, item.title, item.url)),
          counts  |-> [cnt EXCEPT !.updated = @ + 1],
          crashed |-> FALSE]

\* the loop body without its try/except
desc_drain_no_except(d, cnt, item, out) ==
    IF out.kind = "raise"
    THEN [data |-> d, counts |-> cnt, crashed |-> TRUE]
    ELSE LET description == generate_description(out.info, item.title, item.url)
         IN  IF ~IsNull(description)
             THEN [data    |-> SetLinkField(d, item.link_obj, "description", description),
                   counts  |-> [cnt EXCEPT !.updated = @ + 1],
                   crashed |-> FALSE]
             ELSE [data |-> d, counts |-> [cnt EXCEPT !.failed = @ + 1],
                   crashed |-> FALSE]

\* update_descriptions, lines 234-255: the body of the as_completed loop
desc_drain(d, cnt, item, out) ==
    IF out.kind = "raise"
    THEN [data |-> d, counts |-> [cnt EXCEPT !.failed = @ + 1], crashed |-> FALSE]
    ELSE LET description == generate_description(out.info, item.title, item.url)
         IN  IF ~IsNull(description)
             THEN [data    |-> SetLinkField(d, item.link_obj, "description", description),
                   counts  |-> [cnt EXCEPT !.updated = @ + 1],
                   crashed |-> FALSE]
             ELSE [data |-> d, counts |-> [cnt EXCEPT !.failed = @ + 1],
                   crashed |-> FALSE]

DescDrain(i) ==
    /\ pc = "drain" /\ tool = "desc"
    /\ fut[i].st = "done"
    /\ LET r == desc_drain(data, counts, work[i], fut[i].out) IN
       /\ data' = r.data
       /\ counts' = r.counts
       /\ crashed' = r.crashed
       /\ pc' = IF r.crashed THEN "exited" ELSE pc
       /\ exitCode' = IF r.crashed THEN 1 ELSE exitCode
    /\ fut' = [fut EXCEPT ![i].st = "drained"]
    /\ UNCHANGED <<config, loads, file, answer, work, ret, domain_to_favicon,
                   checker_state, writes, save_error>>

\* check_links_batch, lines 264-278
CheckDrain(i) ==
    /\ pc = "drain" /\ tool = "check"
    /\ fut[i].st = "done"
    /\ IF fut[i].out.kind = "raise"
       THEN /\ stats' = [stats EXCEPT !.unknown_error = @ + 1]
            /\ results' = results
       ELSE /\ results' = Append(results, fut[i].out.res)
            /\ stats' = stats
    /\ fut' = [fut EXCEPT ![i].st = "drained"]
    /\ UNCHANGED <<config, loads, file, data, pc, exitCode, crashed, answer, work, counts,
                   ret, domain_to_favicon, failed_links, writes, save_error>>

\* update_missing_logos_batch, lines 481-491
update_drain(dtf, domain, out) ==
    [d \in (DOMAIN dtf) \cup {domain} |->
        IF d = domain
        THEN IF out.kind = "raise" THEN Null ELSE out.url
        ELSE dtf[d]]

UpdateDrain(i) ==
    /\ pc = "drain" /\ tool = "update"
    /\ fut[i].st = "done"
    /\ domain_to_favicon' = update_drain(domain_to_favicon, work[i].domain, fut[i].out)
    /\ fut' = [fut EXCEPT ![i].st = "drained"]
    /\ UNCHANGED <<config, loads, file, data, pc, exitCode, crashed, answer, work, counts,
                   ret, checker_state, writes, save_error>>

(***************************************************************************)
(* After the batch                                                         *)
(***************************************************************************)
\* verify_existing_logos, lines 560-573: verify_logo in a worker
VerifyFetch(i) ==
    /\ pc = "drain" /\ tool = "verify"
    /\ fut[i].st = "running"
    /\ fut' = [fut EXCEPT ![i] = [st |-> "done", out |-> OutcomeAt(VerifyOutcomes, net, i)]]
    /\ UNCHANGED <<config, loads, file, data, pc, exitCode, crashed, answer, work, counts,
                   ret, domain_to_favicon, checker_state, writes, save_error>>

\* verify_existing_logos, lines 575-586: one pass of the as_completed loop
\* the entry is counted, then the progress line prints title[:40]; for a
\* title that is no string this raises and the except branch counts the
\* entry as invalid (lines 587-591)
verify_drain(cnt, out, title) ==
    LET counted == IF out.is_valid
                   THEN [cnt EXCEPT !.checked = @ + 1, !.valid = @ + 1]
                   ELSE [cnt EXCEPT !.checked = @ + 1, !.invalid = @ + 1]
    IN  IF IsStr(title) THEN counted
        ELSE [counted EXCEPT !.invalid = @ + 1]

VerifyDrain(i) ==
    /\ pc = "drain" /\ tool = "verify"
    /\ fut[i].st = "done"
    /\ counts' = verify_drain(counts, fut[i].out, work[i].title)
    /\ fut' = [fut EXCEPT ![i].st = "drained"]
    /\ UNCHANGED <<config, loads, file, data, pc, exitCode, crashed, answer, work,
                   ret, domain_to_favicon, checker_state, writes, save_error>>

SaveOutcomes == {"ok", "open_fails", "write_fails"}

\* open(self.webstack_file, 'w') followed by yaml.dump: the file afterwards.
\* open truncates the file, so a dump that fails leaves a partial document
write_file(f, d, outcome) ==
    CASE outcome = "ok"          -> FileDoc(yaml_dump(d))
      [] outcome = "open_fails"  -> f
      [] outcome = "write_fails" -> [kind |-> "partial"]

\* update_descriptions, lines 260-278, and main, lines 345-354
DescSave ==
    /\ pc = "drain" /\ tool = "desc"
    /\ AllDrained
    /\ \E outcome \in SaveOutcomes :
         /\ file' = write_file(file, data, outcome)
         /\ writes' = IF outcome = "open_fails" THEN writes ELSE writes + 1
         /\ save_error' = (outcome # "ok")
         /\ ret' = IF outcome = "ok" THEN counts
                   ELSE [updated |-> 0, failed |-> counts.total, total |-> counts.total]
    /\ pc' = "exited"
    /\ exitCode' = 0
    /\ UNCHANGED <<config, loads, data, crashed, answer, work, fut, counts,
                   domain_to_favicon, checker_state>>

ReportFormats == {"markdown", "json", "text"}

\* generate_markdown_report, lines 359-364: the categories of the results in
\* the order of their first result, each with the URLs of its results
by_category(rs) ==
    LET firsts == SelectSeq([i \in 1..Len(rs) |-> i],
                            LAMBDA i : \A j \in 1..(i - 1) : rs[j].category # rs[i].category)
    IN  [c \in 1..Len(firsts) |->
           [category |-> rs[firsts[c]].category,
            links    |-> LET same == SelectSeq(rs, LAMBDA r : r.category = rs[firsts[c]].category)
                         IN  [k \in 1..Len(same) |-> same[k].url]]]

\* a report generation that takes the failed links off the list it reads
generate_report_consuming(rs, st, fl, format) ==
    [report       |-> [format |-> format, total_links |-> st.total,
                       reached |-> st.success + st.redirect,
                       failed |-> [k \in 1..Len(fl) |-> fl[k].url], rows |-> <<>>],
     results      |-> rs,
     stats        |-> st,
     failed_links |-> <<>>]

\* LinkChecker.generate_report, lines 300-434: what the report shows (the
\* total, the links reached, the failed links and, but for the text format,
\* the results) and the three objects it reads as they are after the call
generate_report(rs, st, fl, format) ==
    [report       |-> [format      |-> format,
                       total_links |-> st.total,
                       reached     |-> st.success + st.redirect,
                       failed      |-> [k \in 1..Len(fl) |-> fl[k].url],
                       rows        |-> CASE format = "markdown" -> by_category(rs)
                                         [] format = "json" -> [k \in 1..Len(rs) |-> rs[k].url]
                                         [] format = "text" -> <<>>],
     results      |-> rs,
     stats        |-> st,
     failed_links |-> fl]

\* link_checker.main, lines 474-508
CheckReport ==
    /\ pc = "drain" /\ tool = "check"
    /\ AllDrained
    /\ \E format \in ReportFormats :
         LET g == generate_report(results, stats, failed_links, format) IN
         /\ ret' = g.report
         /\ results' = g.results
         /\ stats' = g.stats
         /\ failed_links' = g.failed_links
    /\ pc' = "exited"
    /\ exitCode' = checker_exit_code(failed_links', stats')
    /\ UNCHANGED <<config, loads, file, data, crashed, answer, work, fut, counts,
                   domain_to_favicon, writes, save_error>>

\* UnifiedLogoTool.generate_report, lines 610-672: the three totals of the
\* report and the dataset as it is after the call
logo_generate_report(d) ==
    LET ps   == AllLinkPaths(d)
        with == SelectSeq(ps, LAMBDA p : ~missing_logo(LinkAt(d, p)))
    IN  [report |-> [total_sites        |-> Len(ps),
                     sites_with_logo    |-> Len(with),
                     sites_without_logo |-> Len(ps) - Len(with)],
         data   |-> d]

\* logo_tool.main, lines 742-749: the report command.  The percentages of
\* lines 668-669 divide by total_sites, so a dataset without entries ends
\* the command with ZeroDivisionError
LogoReport ==
    /\ pc = "loaded" /\ tool = "report"
    /\ LET g == logo_generate_report(data) IN
       IF g.report.total_sites = 0
       THEN /\ crashed' = TRUE /\ exitCode' = 1
            /\ UNCHANGED <<ret, data>>
       ELSE /\ ret' = g.report
            /\ data' = g.data
            /\ exitCode' = 0
            /\ crashed' = crashed
    /\ pc' = "exited"
    /\ UNCHANGED <<config, loads, file, answer, work, fut, counts,
                   domain_to_favicon, checker_state, writes, save_error>>

\* save_webstack_data, lines 394-402: a failed write ends in sys.exit(1)
save_exit_code(outcome) == IF outcome = "ok" THEN 0 ELSE 1

\* update_missing_logos_batch, lines 493-528
UpdateMerge ==
    /\ pc = "drain" /\ tool = "update"
    /\ AllDrained
    /\ LET m == merge_logos(AllLinkPaths(data), data, domain_to_favicon, counts) IN
       /\ data' = m.data
       /\ counts' = m.counts
       /\ IF m.counts.updated > 0
          THEN \E outcome \in SaveOutcomes :
                 /\ file' = write_file(file, m.data, outcome)
                 /\ writes' = IF outcome = "open_fails" THEN writes ELSE writes + 1
                 /\ exitCode' = save_exit_code(outcome)
                 /\ save_error' = (outcome # "ok")
                 /\ ret' = IF outcome = "ok" THEN m.counts ELSE NoRet
          ELSE /\ UNCHANGED <<file, writes, save_error>>
               /\ exitCode' = 0
               /\ ret' = m.counts
    /\ pc' = "exited"
    /\ UNCHANGED <<config, loads, crashed, answer, work, fut, domain_to_favicon,
                   checker_state>>

\* the items the drain loop appended to invalid_logos (line 585)
invalid_logos(w, f) ==
    SelectSeq([i \in 1..Len(w) |-> i],
              LAMBDA i : f[i].st = "drained" /\ ~f[i].out.is_valid)

\* lines 593-595: link_ref['logo'] = '' for every invalid logo
RECURSIVE clear_logos(_, _, _)
clear_logos(d, w, idx) ==
    IF idx = <<>> THEN d
    ELSE clear_logos(SetLinkField(d, w[Head(idx)].link_ref, "logo", EmptyStr), w, Tail(idx))

\* verify_existing_logos, lines 592-606
VerifyClean ==
    /\ pc = "drain" /\ tool = "verify"
    /\ AllDrained
    /\ LET bad == invalid_logos(work, fut) IN
       IF bad # <<>>
       THEN /\ data' = clear_logos(data, work, bad)
            /\ \E outcome \in SaveOutcomes :
                 /\ file' = write_file(file, data', outcome)
                 /\ writes' = IF outcome = "open_fails" THEN writes ELSE writes + 1
                 /\ exitCode' = save_exit_code(outcome)
                 /\ save_error' = (outcome # "ok")
                 /\ ret' = IF outcome = "ok" THEN counts ELSE NoRet
       ELSE /\ UNCHANGED <<data, file, writes, save_error>>
            /\ exitCode' = 0
            /\ ret' = counts
    /\ pc' = "exited"
    /\ UNCHANGED <<config, loads, crashed, answer, work, fut, counts, domain_to_favicon,
                   checker_state>>

Next ==
    \/ load_webstack_data
    \/ DescSubmit
    \/ CheckSubmit
    \/ UpdateSubmit
    \/ VerifySubmit
    \/ \E i \in 1..Len(fut) : StartFetch(i)
    \/ \E i \in 1..Len(fut) : DescFetch(i)
    \/ \E i \in 1..Len(fut) : CheckProbe(i)
    \/ \E i \in 1..Len(fut) : CheckRecord(i)
    \/ \E i \in 1..Len(fut) : LogoFetch(i)
    \/ \E i \in 1..Len(fut) : VerifyFetch(i)
    \/ \E i \in 1..Len(fut) : DescDrain(i)
    \/ \E i \in 1..Len(fut) : CheckDrain(i)
    \/ \E i \in 1..Len(fut) : UpdateDrain(i)
    \/ \E i \in 1..Len(fut) : VerifyDrain(i)
    \/ DescSave
    \/ CheckReport
    \/ LogoReport
    \/ UpdateMerge
    \/ VerifyClean

Spec == Init /\ [][Next]_vars

\* The run with its scheduling: the operating system keeps running a thread
\* that can take a step, every network call ends (it carries a timeout), and
\* the user answers the confirmation prompt
\* how far the future of a work item has come
Rank(st) ==
    CASE st = "queued" -> 0 [] st = "running" -> 1 [] st = "recording" -> 2
      [] st = "done" -> 3 [] st = "drained" -> 4

\* a step that moves the run on: the main thread changes position, or the
\* future of a work item comes further
Advances ==
    \/ pc' # pc
    \/ \E i \in 1..Len(fut) : Len(fut') = Len(fut) /\ Rank(fut'[i].st) > Rank(fut[i].st)

\* a thread can take a step: the main thread loads, enumerates and submits;
\* in the batch a queued item finds an idle worker, a worker is in a fetch,
\* a result waits to be drained, or the drain loop has ended
CanStep ==
    \/ pc \in {"start", "loaded"}
    \/ /\ pc = "drain"
       /\ \/ \E i \in 1..Len(fut) :
                fut[i].st = "queued" /\ Cardinality(InFlight) < max_workers
          \/ \E i \in 1..Len(fut) : fut[i].st \in {"running", "recording", "done"}
          \/ AllDrained

\* Some thread that can take a step takes one.  The second conjunct names
\* one such step outright, so that the enabledness of the action can be
\* computed; it constrains nothing.
Progress ==
    /\ CanStep
    /\ \/ /\ pc' = "exited"
          /\ UNCHANGED <<config, loads, file, data, exitCode, crashed, answer, work, fut,
                         counts, ret, domain_to_favicon, checker_state, writes,
                         save_error>>
       \/ TRUE
    /\ Advances

LiveSpec == Init /\ [][Next]_vars /\ WF_vars(Progress)

(***************************************************************************)
(* The pure functions called on their own: a call is drawn from a bounded  *)
(* set of arguments and one step applies the function to it.               *)
(***************************************************************************)
UrlSchemes == {<<>>, HTTP, HTTPS}

UrlPrefixes == {<<>>, WWW, <<"W", "W", "W", ".">>}

UrlHosts ==
    { <<"E", "x", ".", "c", "o", "m">>, <<"e", "x", ".", "c", "o", "m">>,
      <<"a", ".", "c", "n">>, <<"A", ".", "C", "N">>,
      <<"a", ".", "c", "o", "m", ".", "c", "n">>,
      <<"c", "n", ".", "c", "o", "m">>, <<"c", "n">> }

UrlPorts == {<<>>, <<":", "8", "0">>}

UrlPaths == {<<>>, <<"/", "x">>}

UrlParts ==
    {[scheme |-> s, www |-> w, host |-> h, port |-> p, path |-> q] :
        s \in UrlSchemes, w \in UrlPrefixes, h \in UrlHosts,
        p \in UrlPorts, q \in UrlPaths}

UrlOf(u) == u.scheme \o u.www \o u.host \o u.port \o u.path

\* a meta description of 101 characters that holds a run of two spaces
MetaWideGap == Str(Rep("m", 50) \o <<" ", " ">> \o Rep("m", 49))

\* the texts extract_website_info can hand over as one candidate: None, or
\* a stripped string
MetaTexts ==
    {Null, EmptyStr, Str(Rep("m", 8)), Str(Rep("m", 10)), Str(Rep("m", 12)),
     Str(Rep("m", 100)), Str(Rep("m", 101)), Str(Rep("m", 150)), MetaWideGap}

ShortTexts(c) == {Null, Str(Rep(c, 10)), Str(Rep(c, 12))}

Infos ==
    {ErrorInfo} \cup
    {[status |-> "success", title |-> t, meta_description |-> m,
      og_description |-> od, og_title |-> ot, main_text |-> b] :
        t \in ShortTexts("t"), m \in MetaTexts, od \in ShortTexts("o"),
        ot \in {Null, Str(Rep("g", 12))}, b \in {Null, Str(Rep("b", 60))}}

Calls ==
    {[fn |-> "classify", url |-> u] : u \in UrlParts}
      \cup {[fn |-> "extract_domain", url |-> u] : u \in UrlParts}
      \cup {[fn |-> "generate_description", info |-> i,
              title |-> Str(<<"G", "H">>), url |-> Str(HTTPS \o GhCom)] : i \in Infos}

\* the positions of a candidate list
ApiPositions == 1..Len(favicon_apis)

ACn == <<"a", ".", "c", "n">>

FaviconCalls ==
    {[fn |-> "get_favicon_for_domain", domain |-> d, passes |-> ps, direct |-> w] :
        d \in {<<>>, GhCom, ACn}, ps \in SUBSET ApiPositions,
        w \in {Null, Str(HTTPS \o ACn \o <<"/favicon.ico">>)}}

\* what the candidates answer in quality mode: rejected ones among files of
\* two sizes, or failing quality checks and missing sizes among files of one
QualityProbes ==
    [ApiPositions -> {Rejected, HeadOk(Size(5000)), HeadOk(Size(30000))}]
      \cup [ApiPositions -> {HeadFails, HeadOk(NoSize), HeadOk(Size(5000))}]

QualityCalls ==
    {[fn |-> "get_best_quality_favicon", domain |-> d, probes |-> ps, direct |-> Null] :
        d \in {GhCom, ACn}, ps \in QualityProbes}

FnInit ==
    /\ tool = "desc" /\ only_null = TRUE /\ dry_run = FALSE /\ max_workers = 1
    /\ net = [k |-> 1, s |-> 0]
    /\ file0 = FileAbsent /\ file = file0 /\ data = Null
    /\ pc = "call" /\ exitCode = -1 /\ crashed = FALSE /\ answer = "none"
    /\ work = <<>> /\ fut = <<>> /\ counts = ZeroCounts /\ ret = NoRet
    /\ domain_to_favicon = <<>> /\ stats = InitStats /\ failed_links = <<>>
    /\ results = <<>> /\ writes = 0 /\ save_error = FALSE /\ loads = 0
    /\ call \in Calls \cup FaviconCalls \cup QualityCalls
    /\ result = NoResult

run_state ==
    <<tool, only_null, dry_run, max_workers, net, file0, file, data, pc, exitCode,
      crashed, answer, work, fut, counts, ret, domain_to_favicon, stats,
      failed_links, results, writes, save_error, loads>>

\* the two tools on one URL: the timeout check_single_link gives the probe
\* (link_checker.py 125-141) and the favicon get_favicon_for_domain returns
\* for the URL's domain when the first candidate of the list it selected
\* answers (logo_tool.py 119-135)
ApplyClassify ==
    /\ call.fn = "classify" /\ result = NoResult
    /\ result' =
         [kind    |-> "classify",
          timeout |-> probe_timeout(normalize_url(UrlOf(call.url)).s),
          favicon |-> get_favicon_for_domain(extract_domain(Str(UrlOf(call.url))),
                                             {1}, Null)]
    /\ UNCHANGED <<run_state, call>>

ApplyExtractDomain ==
    /\ call.fn = "extract_domain" /\ result = NoResult
    /\ result' = [kind |-> "domain", domain |-> extract_domain(Str(UrlOf(call.url)))]
    /\ UNCHANGED <<run_state, call>>

ApplyGenerateDescription ==
    /\ call.fn = "generate_description" /\ result = NoResult
    /\ result' = [kind |-> "description",
                  description |-> generate_description(call.info, call.title, call.url)]
    /\ UNCHANGED <<run_state, call>>

\* get_favicon_for_domain on one domain, with the probes it made
ApplyGetFavicon ==
    /\ call.fn = "get_favicon_for_domain" /\ result = NoResult
    /\ result' = [kind   |-> "favicon",
                  url    |-> get_favicon_for_domain(call.domain, call.passes, call.direct),
                  probed |-> favicon_probes(call.domain, call.passes)]
    /\ UNCHANGED <<run_state, call>>

ApplyGetBestQualityFavicon ==
    /\ call.fn = "get_best_quality_favicon" /\ result = NoResult
    /\ result' = [kind |-> "quality",
                  url  |-> get_best_quality_favicon(call.domain, call.probes, call.direct)]
    /\ UNCHANGED <<run_state, call>>

FnNext ==
    \/ ApplyGetFavicon
    \/ ApplyGetBestQualityFavicon
    \/ ApplyClassify
    \/ ApplyExtractDomain
    \/ ApplyGenerateDescription

FnSpec == FnInit /\ [][FnNext]_vars

(***************************************************************************)
(* Properties                                                              *)
(***************************************************************************)
\* the dataset as the run loaded it
data0 == safe_load(file0).data

\* the dataset is in memory
Loaded == file0.kind = "doc" /\ pc # "start"

\* the fetch of work item i has ended
Fetched(i) == fut[i].st \in {"done", "drained"}

\* the fetch of the description tool failed
FetchFailed(out) == out.kind = "raise" \/ out.info.status = "error"

\* the entry at path p in the file as it would be loaded
FileLinkAt(f, p) == LinkAt(LoadNode(f.root), p)

\* C1: a failed fetch leaves the entry's field at the value it held before
\* the run.  Description tool: once the fetch of a work item has returned
\* status 'error' or raised, the entry is, in memory and in a written file,
\* what it was when loaded.  Logo update: after the merge, every entry for
\* whose domain no favicon URL was found is what it was when loaded.
C1_FailedFetchKeepsField ==
    /\ (tool = "desc" /\ Loaded) =>
          \A i \in 1..Len(fut) :
             (Fetched(i) /\ FetchFailed(fut[i].out)) =>
                /\ LinkAt(data, work[i].link_obj) = LinkAt(data0, work[i].link_obj)
                /\ file.kind = "doc" =>
                      FileLinkAt(file, work[i].link_obj) = LinkAt(data0, work[i].link_obj)
    /\ (tool = "update" /\ Loaded /\ pc = "exited") =>
          \A n \in 1..Len(AllLinkPaths(data0)) :
             LET p == AllLinkPaths(data0)[n] IN
             ~FoundFor(domain_to_favicon,
                       extract_domain(Get(LinkAt(data0, p), "url", EmptyStr))) =>
                /\ LinkAt(data, p) = LinkAt(data0, p)
                /\ file.kind = "doc" => FileLinkAt(file, p) = LinkAt(data0, p)

\* a finished description run in which one fetch failed, its entry still
\* holds null, and another entry was given a description
C1_Witness ==
    /\ tool = "desc" /\ pc = "exited" /\ file.kind = "doc" /\ writes = 1
    /\ \E i, j \in 1..Len(fut) :
          /\ FetchFailed(fut[i].out)
          /\ IsNull(Get(FileLinkAt(file, work[i].link_obj), "description", EmptyStr))
          /\ ~FetchFailed(fut[j].out)
          /\ LinkAt(data, work[j].link_obj) # LinkAt(data0, work[j].link_obj)

\* C2: in an only-missing description run an entry whose description is
\* not null when loaded is never a work item (so never fetched) and all its
\* fields stay as loaded, in memory and in a written file.
C2_OnlyNullSkipsDescribed ==
    (tool = "desc" /\ only_null /\ Loaded) =>
       \A n \in 1..Len(AllLinkPaths(data0)) :
          LET p == AllLinkPaths(data0)[n] IN
          ~IsNull(Get(LinkAt(data0, p), "description", Null)) =>
             /\ \A i \in 1..Len(work) : work[i].link_obj # p
             /\ LinkAt(data, p) = LinkAt(data0, p)
             /\ file.kind = "doc" => FileLinkAt(file, p) = LinkAt(data0, p)

\* a finished only-missing run over an entry with an empty-string description
\* and another entry that was updated
C2_Witness ==
    /\ tool = "desc" /\ only_null /\ pc = "exited" /\ file.kind = "doc" /\ writes = 1
    /\ data # data0
    /\ \E n \in 1..Len(AllLinkPaths(data0)) :
          Get(LinkAt(data0, AllLinkPaths(data0)[n]), "description", Null) = EmptyStr

\* how many work items the main thread has drained
Drained == Cardinality({i \in 1..Len(fut) : fut[i].st = "drained"})

WithoutKey(d, k) ==
    SeqN([c \in 1..Len(d.items) |->
       Put(d.items[c], "list", SeqN([g \in 1..Len(ListOf(d.items[c])) |->
          LET grp == ListOf(d.items[c])[g] IN
          Put(grp, "links", SeqN([l \in 1..Len(LinksOf(grp)) |->
             MapN(SelectSeq(LinksOf(grp)[l].pairs, LAMBDA kv : kv.k # k))]))]))])

\* the positions of the keys of every link entry
KeyOrder(d) ==
    [n \in 1..Len(AllLinkPaths(d)) |->
       LET ps == LinkAt(d, AllLinkPaths(d)[n]).pairs IN [i \in 1..Len(ps) |-> ps[i].k]]

\* the work item's fetch gave a page with a meta description
HasMeta(out) == out.kind = "info" /\ out.info.status = "success" /\ IsStr(out.info.meta_description)

\* whitespace occurs in m only as single space characters between words
SingleSpaced(m) ==
    \A i \in 1..Len(m) : IsSpace(m[i]) => (m[i] = " " /\ i > 1 /\ i < Len(m) /\ ~IsSpace(m[i - 1]))

\* a description run leaves everything but the description fields as loaded
DescFrame ==
    (tool = "desc" /\ Loaded /\ data # data0) =>
       LET d0 == data0
           ps == AllLinkPaths(d0)
       IN  /\ WithoutKey(data, "description") = WithoutKey(d0, "description")
           /\ \A n \in 1..Len(ps) :
                 /\ HasKey(LinkAt(d0, ps[n]), "description") =>
                       KeyOrder(data)[n] = KeyOrder(d0)[n]
                 /\ (\A i \in 1..Len(fut) :
                        work[i].link_obj = ps[n] =>
                           (fut[i].st # "drained" \/ FetchFailed(fut[i].out)))
                    => LinkAt(data, ps[n]) = LinkAt(d0, ps[n])

EndedResults == {i \in 1..Len(fut) : Fetched(i)}

NonFailure(r) == r.status \in {"success", "redirect"}

TimedOut(i) ==
    /\ ~IsNull(normalize_url(work[i].url))
    /\ OutcomeAt(ProbeOutcomes, net, i).kind = "exception"
    /\ "Timeout" \in OutcomeAt(ProbeOutcomes, net, i).classes

Count(seq, Test(_)) == Cardinality({n \in 1..Len(seq) : Test(seq[n])})

IsDnsFailure(o) ==
    Contains(o.msg, "Name or service not known")
       \/ Contains(o.msg, "getaddrinfo failed")
       \/ Contains(o.msg, "Temporary failure in name resolution")

\* the status the classifier is said to give a probe outcome
StatedStatus(o) ==
    IF o.kind = "response"
    THEN IF 200 <= o.code /\ o.code < 300 THEN "success"
         ELSE IF 300 <= o.code /\ o.code < 400 THEN "redirect"
         ELSE "http_error"
    ELSE IF "Timeout" \in o.classes THEN "timeout"
    ELSE IF "SSLError" \in o.classes THEN "ssl_error"
    ELSE IF "ConnectionError" \in o.classes
    THEN IF IsDnsFailure(o) THEN "dns_error" ELSE "connection_error"
    ELSE IF o = InvalidURL THEN "invalid_url"
    ELSE "unknown_error"

\* C7: every probe outcome gets the one status stated for it: 2xx success,
\* 3xx redirect, any other code http_error, Timeout timeout, SSLError
\* ssl_error, a DNS-resolution failure dns_error, another ConnectionError
\* connection_error, an unusable URL invalid_url, anything else
\* unknown_error.
C7_StatusAsStated ==
    tool = "check" =>
       \A i \in 1..Len(fut) :
          Fetched(i) =>
             fut[i].out.res.status =
                IF IsNull(normalize_url(work[i].url)) THEN "invalid_url"
                ELSE StatedStatus(OutcomeAt(ProbeOutcomes, net, i))

\* C8: with the dataset file absent or malformed the load step ends the
\* process with exit code 1; no work item is ever enumerated or fetched and
\* the file is never opened for writing.
C8_LoadFailureIsFatal ==
    file0.kind \in {"absent", "malformed"} =>
       /\ pc \in {"start", "exited"}
       /\ pc = "exited" => exitCode = 1
       /\ data = Null /\ work = <<>> /\ fut = <<>>
       /\ writes = 0 /\ file = file0 /\ ~save_error

\* the logo update has exited with code 1 on a malformed file
C8_Witness ==
    /\ file0.kind = "malformed" /\ tool = "update"
    /\ pc = "exited" /\ exitCode = 1 /\ writes = 0

\* C9: a failure to write the dataset file is reported and the run still
\* ends normally: the batch returns its statistics, the process exits with
\* code 0, and the updates made in memory are still there.
C9_SaveFailureNotFatal ==
    (save_error /\ pc = "exited") =>
       /\ exitCode = 0
       /\ ret # NoRet
       /\ counts.updated > 0 => data # data0

\* the dataset file holds the document written by a save that succeeded
Saved == writes > 0 /\ ~save_error /\ file.kind = "doc"

HostOf(u) == Lower(u.www \o u.host)

\* the host ends in one of the six listed suffixes
HasListedSuffix(host) == \E i \in 1..Len(china_suffixes) : EndsWith(host, china_suffixes[i])

\* the favicon comes from the first candidate of the given list
FromList(favicon, apis) == IsStr(favicon) /\ StartsWith(favicon.s, apis[1].pre)

\* C11: a URL is in the extended class exactly when its domain ends in one
\* of .cn, .com.cn, .net.cn, .org.cn, .gov.cn, .edu.cn: the link checker
\* then probes it with timeout 20 and the logo tool resolves it with the
\* extended candidate list; every other URL gets timeout 10 and the default
\* list; so the two tools agree on every input.
C11_SuffixDecidesClass ==
    result.kind = "classify" =>
        IF HasListedSuffix(HostOf(call.url))
        THEN /\ result.timeout = ChinaTimeout
             /\ FromList(result.favicon, china_favicon_apis)
        ELSE /\ result.timeout = DefaultTimeout
             /\ FromList(result.favicon, favicon_apis)

\* the candidates of a fetched page in their priority order
Candidates(info) ==
    <<info.meta_description, info.og_description, info.og_title, info.title,
      info.main_text>>

\* a text as a description shows it: runs of whitespace collapsed, and cut
\* to 100 characters plus the marker when longer
AsWritten(text) ==
    LET t == Strip(CollapseWS(text))
    IN  IF Len(t) > 100 THEN SubSeq(t, 1, 100) \o <<".", ".", ".">> ELSE t

\* the positions of the candidates that are strings of at least n characters
AtLeast(info, n) ==
    {i \in 1..5 : IsStr(Candidates(info)[i]) /\ Len(Candidates(info)[i].s) >= n}

First(S) == CHOOSE i \in S : \A j \in S : i <= j

\* C12: for a fetched page generate_description returns the first candidate,
\* in the order meta description, Open-Graph description, Open-Graph title,
\* page title, body text, that is non-empty and has at least 10 characters;
\* shorter candidates are skipped; when none qualifies the result is
\* "{title} - {domain}".
C12_FirstOfAtLeast10 ==
    (result.kind = "description" /\ call.info.status = "success") =>
        IF AtLeast(call.info, 10) # {}
        THEN result.description =
               Str(AsWritten(Candidates(call.info)[First(AtLeast(call.info, 10))].s))
        ELSE result.description = Str(call.title.s \o <<" ", "-", " ">> \o GhCom)

\* the candidate generate_description selects: the first one of more than
\* 10 characters
Selected(info) == Candidates(info)[First(AtLeast(info, MinDescLen + 1))].s

\* a description was generated from a candidate of a fetched page
FromCandidate ==
    /\ result.kind = "description" /\ call.info.status = "success"
    /\ AtLeast(call.info, MinDescLen + 1) # {}

\* C13 as stated: a selected candidate longer than 100 characters is cut to
\* its first 100 characters followed by "...", and one of at most 100
\* characters is returned whole; so a description from a page candidate has
\* at most 103 characters.
C13_CutAt100OfCandidate ==
    FromCandidate =>
        /\ result.description =
             (IF Len(Selected(call.info)) > 100
              THEN Str(SubSeq(Selected(call.info), 1, 100) \o <<".", ".", ".">>)
              ELSE Str(Selected(call.info)))
        /\ Len(result.description.s) <= 103

\* C13: the selected candidate is first rewritten with every run of
\* whitespace collapsed to one space; the rewritten text is cut to its first
\* 100 characters followed by "..." when it is longer than 100 characters
\* and returned whole otherwise; so a description from a page candidate has
\* at most 103 characters.
C13_CutAt100AfterCollapse ==
    FromCandidate =>
        LET t == Strip(CollapseWS(Selected(call.info)))
        IN  /\ result.description =
                 (IF Len(t) > 100
                  THEN Str(SubSeq(t, 1, 100) \o <<".", ".", ".">>)
                  ELSE Str(t))
            /\ Len(result.description.s) <= 103

\* a candidate of 150 characters came back as 103, and the candidate of 101
\* characters holding a double space came back whole, as 100
C13_Witness ==
    /\ FromCandidate
    /\ \/ Len(Selected(call.info)) = 150 /\ Len(result.description.s) = 103
       \/ Selected(call.info) = MetaWideGap.s /\ Len(result.description.s) = 100

\* a host without one leading "www."
WithoutWww(host) == IF StartsWith(host, WWW) THEN SubSeq(host, 5, Len(host)) ELSE host

\* C14: extract_domain is case-insensitive and strips one leading "www.":
\* for every URL, with or without an http/https scheme, the result is the
\* lower-cased host with a leading "www." removed, so URLs differing only
\* in the case of the host or in a leading "www." give the same domain.
C14_LowerCasedHostWithoutWww ==
    result.kind = "domain" => result.domain = WithoutWww(HostOf(call.url))

\* the description tool has enumerated its work items
Enumerated == tool = "desc" /\ Loaded /\ pc # "loaded" /\ ~crashed

\* the entries of the work list, as paths into the dataset
WorkPaths == [i \in 1..Len(work) |-> work[i].link_obj]

\* the entry's url is a non-empty string
NonEmptyUrl(link) == IsStr(Get(link, "url", Null)) /\ Get(link, "url", Null).s # <<>>

\* C15 as stated: in only-missing mode the work list holds exactly the
\* entries with a non-empty url whose description is null, absent or empty;
\* in update-all mode every entry with a non-empty url.
C15_WorkListNullAbsentOrEmpty ==
    Enumerated =>
        WorkPaths = SelectSeq(AllLinkPaths(data0), LAMBDA p :
                        /\ NonEmptyUrl(LinkAt(data0, p))
                        /\ only_null =>
                              \/ ~HasKey(LinkAt(data0, p), "description")
                              \/ IsNull(Get(LinkAt(data0, p), "description", Null))
                              \/ Get(LinkAt(data0, p), "description", Null) = EmptyStr)

\* C15: in only-missing mode the work list holds, in document order,
\* exactly the entries with a non-empty url whose description is null or
\* absent (an entry whose description is the empty string is left out); in
\* update-all mode it holds every entry with a non-empty url.
C15_WorkListNullOrAbsent ==
    Enumerated =>
        WorkPaths = SelectSeq(AllLinkPaths(data0), LAMBDA p :
                        /\ NonEmptyUrl(LinkAt(data0, p))
                        /\ only_null =>
                              \/ ~HasKey(LinkAt(data0, p), "description")
                              \/ IsNull(Get(LinkAt(data0, p), "description", Null)))

\* an only-missing run whose work list holds the entry without a description
\* key and leaves out the other entry of the dataset, and an update-all
\* run that took an entry with a description
C15_Witness ==
    /\ Enumerated /\ Len(AllLinkPaths(data0)) = 2
    /\ \/ /\ only_null /\ Len(work) = 1
          /\ ~HasKey(LinkAt(data0, work[1].link_obj), "description")
       \/ /\ ~only_null
          /\ \E i \in 1..Len(work) :
                Truthy(Get(LinkAt(data0, work[i].link_obj), "description", Null))

\* C16: a batch run of the description tool, only-missing or --all, over a
\* dataset file that loads ends with exit code 0 whatever the fetches give,
\* also when the file is shaped like the test fixture (a mapping with a
\* 'webstack' key holding category names mapped to lists of entries).
C16_DescBatchExitsZero ==
    (tool = "desc" /\ Loaded /\ pc = "exited") => exitCode = 0

\* C17: a logo update started with --dry-run never leaves the dataset file
\* modified.
C17_DryRunLeavesFile ==
    (tool = "update" /\ dry_run) => file = file0

\* the links whose entry differs between two datasets
Changed(d, e) ==
    {n \in 1..Len(AllLinkPaths(d)) :
        LinkAt(d, AllLinkPaths(d)[n]) # LinkAt(e, AllLinkPaths(d)[n])}

\* the main thread takes the result of work item i from its future
Receives(i) == fut[i].st = "done" /\ fut'[i].st = "drained"

\* C18: in the description update, the logo update and the logo verify the
\* dataset in memory is written only by a step of the main thread and only
\* for entries whose result it has received: the description update writes
\* in the step that takes a result, and only the entry of that work item;
\* the logo update and the logo verify write after the pool has finished,
\* and only entries for which a drained future returned a favicon (update)
\* or an invalid logo (verify).  A step of a worker leaves the dataset alone.
C18_OnlyDrainingThreadWrites ==
    [][(pc = "drain" /\ data' # data) =>
         CASE tool = "desc" ->
                \E i \in 1..Len(fut) :
                   /\ Receives(i)
                   /\ \A n \in Changed(data, data') :
                         AllLinkPaths(data)[n] = work[i].link_obj
           [] tool = "update" ->
                /\ AllDrained /\ pc' = "exited"
                /\ \A n \in Changed(data, data') :
                      \E i \in 1..Len(fut) :
                         /\ work[i].domain =
                              extract_domain(Get(LinkAt(data, AllLinkPaths(data)[n]),
                                                 "url", EmptyStr))
                         /\ fut[i].out.kind = "favicon" /\ Truthy(fut[i].out.url)
           [] tool = "verify" ->
                /\ AllDrained /\ pc' = "exited"
                /\ \A n \in Changed(data, data') :
                      \E i \in 1..Len(fut) :
                         /\ work[i].link_ref = AllLinkPaths(data)[n]
                         /\ ~fut[i].out.is_valid
           [] OTHER -> FALSE]_vars

\* the main thread has written a description while a fetch is still
\* running in a worker; a verify run has cleared an invalid logo; a logo
\* update has set a logo
C18_Witness ==
    /\ Loaded /\ data # data0
    /\ \/ tool = "desc" /\ \E i \in 1..Len(fut) : fut[i].st = "running"
       \/ tool = "verify" /\ pc = "exited"
       \/ tool = "update" /\ pc = "exited"

\* a worker of the link checker takes a step on work item i
WorkerStep(i) == fut[i].st \in {"running", "recording"} /\ fut'[i].st # fut[i].st

\* C19: the worker threads share nothing they write but the HTTP connection
\* pool: no step of a worker changes the link checker's statistics counters
\* or its failed-links list.
C19_WorkersWriteNoSharedState ==
    [][(tool = "check" /\ \E i \in 1..Len(fut) : WorkerStep(i)) =>
          (stats' = stats /\ failed_links' = failed_links)]_vars

\* the outcome counters of the link checker, summed
OutcomeSum ==
    stats.success + stats.redirect + stats.failed + stats.timeout
       + stats.ssl_error + stats.dns_error + stats.unknown_error

\* C20: after check_links_batch has returned, under every interleaving of
\* the workers' counter updates, success + redirect + failed + timeout +
\* ssl_error + dns_error + unknown_error = total = number of links submitted.
C20_CountersAccountForEveryLink ==
    (tool = "check" /\ pc = "drain" /\ AllDrained) =>
        (OutcomeSum = stats.total /\ stats.total = Len(work))

\* the work items whose fetch a worker is executing
Executing == {i \in 1..Len(fut) : fut[i].st \in {"running", "recording"}}

\* C21: with N work items and a pool of W workers, at most W fetches are in
\* flight at any moment, although all N items are submitted (each has its
\* future) before the first result is drained.
C21_AtMostWInFlight ==
    /\ Cardinality(Executing) <= max_workers
    /\ Len(fut) = Len(work)
    /\ \A i \in 1..Len(fut) : fut[i].st \in {"queued", "running", "recording", "done", "drained"}

\* two items submitted to a pool of one worker: one is being fetched, the
\* other waits in the pool's queue
C21_Witness ==
    /\ pc = "drain" /\ max_workers = 1 /\ Len(fut) = 2
    /\ \E i, j \in 1..2 : fut[i].st = "running" /\ fut[j].st = "queued"

\* C22: every batch run terminates.  Each submitted work item completes and
\* is drained by the main thread, and the run ends with all N items
\* drained; a future only moves forward (queued, running, done, drained),
\* so an item is fetched once and drained once, and a link of the link
\* checker is probed once only: its result, failure included, is final.
C22_BatchTerminates ==
    /\ <>(pc = "exited" /\ \A i \in 1..Len(fut) : fut[i].st = "drained")
    /\ [][\A i \in 1..Len(fut) :
             /\ Len(fut') = Len(fut)
             /\ Rank(fut'[i].st) >= Rank(fut[i].st)
             /\ Rank(fut[i].st) >= 3 => fut'[i].out = fut[i].out]_vars

\* a link check of two links has ended with both drained, one of them failed
C22_Witness ==
    /\ tool = "check" /\ pc = "exited" /\ Len(fut) = 2
    /\ \A i \in 1..2 : fut[i].st = "drained"
    /\ Len(failed_links) = 1

\* the run submitted a batch and has ended
BatchEnded == pc = "exited" /\ ~crashed /\ fut # <<>>

\* the step writes the dataset file
WritesFile == writes' # writes \/ file' # file

\* C23 as stated: a run of the description update or of the logo update that
\* worked through a batch has loaded the dataset once and written the dataset
\* file exactly once.
C23_LoadedOnceWrittenOnce ==
    (tool \in {"desc", "update"} /\ BatchEnded) => loads = 1 /\ writes = 1

\* C23: a run of the description update or of the logo update writes the
\* dataset file at most once, in the step that ends the run, when every
\* submitted work item has been drained and merged and no fetch is in flight,
\* and a write that succeeds leaves the dump of the dataset in memory.  The
\* description update loads the dataset once and writes once unless the file
\* cannot be opened; the logo update loads the dataset twice (for the scan and
\* again for the update) and writes only if it set at least one logo.
C23_OneSaveAfterDrain ==
    /\ [](tool \in {"desc", "update"} =>
            /\ writes <= 1
            /\ loads <= (IF tool = "update" THEN 2 ELSE 1)
            /\ pc # "exited" => writes = 0 /\ file = file0
            /\ (tool = "desc" /\ BatchEnded) =>
                  /\ loads = 1
                  /\ ~save_error => writes = 1
            /\ (tool = "update" /\ BatchEnded) =>
                  /\ loads = 2
                  /\ writes = 1 => counts.updated > 0
                  /\ (counts.updated > 0 /\ ~save_error) => writes = 1
                  /\ counts.updated = 0 => file = file0)
    /\ [][(tool \in {"desc", "update"} /\ WritesFile) =>
            /\ pc = "drain" /\ pc' = "exited"
            /\ \A i \in 1..Len(fut) : fut[i].st = "drained"
            /\ fut' = fut
            /\ writes' = writes + 1
            /\ ~save_error' => file' = FileDoc(yaml_dump(data'))]_vars

C23_Witness ==
    /\ tool = "update" /\ BatchEnded /\ Len(fut) = 2
    /\ loads = 2 /\ writes = 1 /\ ~save_error
    /\ file = FileDoc(yaml_dump(data)) /\ file # file0

\* the candidate list get_favicon_for_domain selects for the domain of the call
ListFor(domain) == IF is_china_domain(domain) THEN china_favicon_apis ELSE favicon_apis

\* C24: get_favicon_for_domain probes the candidates of the selected list in
\* list order, each at most once, and stops at the first probe that passes:
\* the probes are the candidates 1..k, all before the k-th fail, and when a
\* candidate passes, k is the first passing one and the result is its URL;
\* when none passes all candidates were probed and the result is what the
\* direct probe of the site found for a .cn domain, and null otherwise.
C24_FirstPassingInListOrder ==
    (result.kind = "favicon" /\ call.domain # <<>>) =>
        LET p == result.probed
            apis == ListFor(call.domain)
        IN  /\ Len(p) \in 1..Len(apis)
            /\ \A k \in 1..Len(p) : p[k] = k
            /\ \A k \in 1..(Len(p) - 1) : k \notin call.passes
            /\ IF call.passes # {}
               THEN /\ Len(p) = First(call.passes)
                    /\ result.url = Str(FormatApi(apis[First(call.passes)], call.domain))
               ELSE /\ Len(p) = Len(apis)
                    /\ result.url = IF is_china_domain(call.domain) THEN call.direct ELSE Null

C24_Witness ==
    /\ result.kind = "favicon" /\ call.domain = ACn /\ call.passes = {3, 5}
    /\ result.probed = <<1, 2, 3>>
    /\ result.url = Str(<<"https://favicon.link/f/">> \o ACn)

\* the candidates of the call that pass validation and the quality check
Passing == {i \in ApiPositions : call.probes[i].kind = "head"}

\* the score of a passing candidate of the call
ScoreAt(i) == quality_score(ListFor(call.domain), i, call.probes[i].content_length)

\* C25: in quality mode get_best_quality_favicon returns, whenever at least
\* one candidate passes validation and the quality check, the URL of a passing
\* candidate whose score no other passing candidate exceeds, and the earliest
\* in list order among the candidates of that score.
C25_HighestScoreEarliestOfTies ==
    (result.kind = "quality" /\ Passing # {}) =>
        \E b \in Passing :
            /\ result.url = Str(FormatApi(ListFor(call.domain)[b], call.domain))
            /\ \A j \in Passing : ScoreAt(j) <= ScoreAt(b)
            /\ \A j \in Passing : ScoreAt(j) = ScoreAt(b) => b <= j

C25_Witness ==
    /\ result.kind = "quality" /\ call.domain = GhCom
    /\ Passing = {3, 6, 7}
    /\ ScoreAt(3) = 70 /\ ScoreAt(6) = 70 /\ ScoreAt(7) = 50
    /\ result.url = Str(<<"https://www.google.com/s2/favicons?sz=128&domain=">> \o GhCom)

\* the fetches of the logo update that were submitted for the domain
FetchesFor(domain) == {j \in 1..Len(work) : work[j].domain = domain}

\* a fetch of the logo update returned a favicon URL
ReturnedFavicon(j) == fut[j].out.kind = "favicon" /\ Truthy(fut[j].out.url)

\* the entries of the dataset in memory that missed a logo when the update
\* loaded it and whose URL has the domain
MissingOf(domain) ==
    {n \in 1..Len(AllLinkPaths(data0)) :
        /\ missing_logo(LinkAt(data0, AllLinkPaths(data0)[n]))
        /\ extract_domain(Get(LinkAt(data0, AllLinkPaths(data0)[n]), "url", EmptyStr)) = domain}

\* C26: in the logo update, when several entries that miss a logo share one
\* domain, each of them receives a logo if at least one fetch for the domain
\* returned a favicon URL, and all of them end with the same logo.
C26_SharedDomainGetsLogo ==
    (tool = "update" /\ BatchEnded /\ ~save_error) =>
        \A i \in 1..Len(work) :
            LET entries == MissingOf(work[i].domain) IN
            /\ (\E j \in FetchesFor(work[i].domain) : ReturnedFavicon(j)) =>
                  \A n \in entries : ~missing_logo(LinkAt(data, AllLinkPaths(data)[n]))
            /\ \A n, k \in entries :
                  Get(LinkAt(data, AllLinkPaths(data)[n]), "logo", EmptyStr)
                    = Get(LinkAt(data, AllLinkPaths(data)[k]), "logo", EmptyStr)

\* the work item of the logo verification that holds entry n of the dataset
ItemOf(n) == {i \in 1..Len(work) : work[i].link_ref = AllLinkPaths(data0)[n]}

\* C27: verify_existing_logos sets logo to the empty string for exactly the
\* entries whose logo probe did not pass, leaves every other entry unchanged,
\* writes the dataset only if at least one logo was cleared, and ends with
\* valid + invalid == total.
C27_ClearsExactlyFailedLogos ==
    (tool = "verify" /\ pc = "exited" /\ Loaded /\ ~save_error) =>
        /\ \A n \in 1..Len(AllLinkPaths(data0)) :
              LinkAt(data, AllLinkPaths(data0)[n]) =
                 IF \E i \in ItemOf(n) : ~fut[i].out.is_valid
                 THEN Put(LinkAt(data0, AllLinkPaths(data0)[n]), "logo", EmptyStr)
                 ELSE LinkAt(data0, AllLinkPaths(data0)[n])
        /\ writes = (IF \E i \in 1..Len(fut) : ~fut[i].out.is_valid THEN 1 ELSE 0)
        /\ writes = 0 => file = file0
        /\ counts.valid + counts.invalid = counts.total

\* the result of work item i of the link checker is neither success nor redirect
NotReached(i) == fut[i].out.res.status \notin {"success", "redirect"}

\* how often the result of work item i stands in failed_links
TimesListed(i) ==
    Cardinality({k \in 1..Len(failed_links) : failed_links[k] = fut[i].out.res})

\* C28: after a batch of the link checker failed_links holds exactly the
\* results whose status is neither success nor redirect, each once, so that
\* len(failed_links) == failed + timeout + ssl_error + dns_error +
\* unknown_error, and every such result makes the process exit with code 1.
C28_FailedLinksMatchCounters ==
    (tool = "check" /\ BatchEnded) =>
        /\ \A i \in 1..Len(fut) : TimesListed(i) = (IF NotReached(i) THEN 1 ELSE 0)
        /\ Len(failed_links) = Cardinality({i \in 1..Len(fut) : NotReached(i)})
        /\ Len(failed_links) = stats.failed + stats.timeout + stats.ssl_error
                                 + stats.dns_error + stats.unknown_error
        /\ (\E i \in 1..Len(fut) : NotReached(i)) => exitCode = 1

\* C29: after a logo update that ran its batch the returned statistics
\* partition the scanned entries: updated + failed == total_scanned, where
\* total_scanned is the number of entries the scan found missing a logo and
\* updated is the number of entries whose logo changed from empty to a
\* favicon URL.
C29_StatsPartitionScanned ==
    (tool = "update" /\ BatchEnded /\ ret # NoRet) =>
        /\ ret.updated + ret.failed = ret.total
        /\ ret.total = Len(scan_missing_logos(data0))
        /\ ret.updated = Cardinality(Changed(data0, data))
        /\ \A n \in Changed(data0, data) :
              /\ missing_logo(LinkAt(data0, AllLinkPaths(data0)[n]))
              /\ ~missing_logo(LinkAt(data, AllLinkPaths(data0)[n]))

\* the step generates a report: the link checker's after its batch, or the
\* logo tool's status report
ReportStep ==
    \/ tool = "check" /\ pc = "drain" /\ pc' = "exited"
    \/ tool = "report" /\ pc = "loaded" /\ pc' = "exited"

\* C30: generating a report changes no program state: a link-checker report
\* in any of the formats markdown, json or text, and a logo status report,
\* leave the dataset in memory, the dataset file, the results list, the
\* statistics counters and the failed-links list as they were, and a run of
\* the link checker or of the report command never writes the dataset file.
C30_ReportsChangeNothing ==
    /\ [][ReportStep => UNCHANGED <<data, file, writes, results, stats, failed_links>>]_vars
    /\ [](tool \in {"check", "report"} => file = file0 /\ writes = 0)

C30_Witness ==
    /\ tool = "check" /\ pc = "exited" /\ ret # NoRet
    /\ ret.format = "markdown" /\ Len(ret.rows) = 2
    /\ Len(ret.failed) = 1 /\ Len(failed_links) = 1 /\ Len(results) = 2
    /\ stats.failed = 1 /\ stats.redirect = 1

=============================================================================
